---- MODULE Spec2Model ----
(***************************************************************************)
(* The lecture pipeline of miniclue's AI service: one lecture row, the     *)
(* stage handlers that Pub/Sub deliveries start (ingestion, image         *)
(* analysis, embedding, explanation, summary) and the counters and the     *)
(* status field through which they coordinate.                             *)
(*                                                                         *)
(* Database model.  Every handler opens its own connection; a statement    *)
(* outside conn.transaction() is one atomic step.  A conn.transaction()    *)
(* block whose first statement on the lectures row is an UPDATE holds the  *)
(* row lock from that statement to the commit, other writers wait and      *)
(* readers see the committed row (READ COMMITTED), so the block is one     *)
(* atomic step of the pipeline model.  The row lock itself is modelled     *)
(* statement by statement in the counter specification (SpecIncrement).    *)
(*                                                                         *)
(* The source tree holds several revisions of the service side by side;    *)
(* a call is resolved to the function of that name and modelled by the     *)
(* statements of its body.                                                 *)
(***************************************************************************)
EXTENDS Integers, Sequences, FiniteSets, TLC

\* ------------------------------------------------------------------ bounds
\* pages of the ingested document
NumSlides == 2
\* distinct sub-image hashes of the ingested document
NumHashes == 2
\* deliveries beyond the first one, over all jobs of the lecture
MaxRedeliveries == 1
\* handler executions that are interrupted (killed, cancelled) mid-way
MaxCrashes == 1
\* concurrent callers of the counter increment
NumCallers == 3
\* largest initial counter value in the counter specification
MaxStart == 1
\* cap of the bookkeeping counters
MaxCount == 3
\* concurrent ingestions of the registry specification
NumIngests == 2
\* images each of them meets
MaxImages == 2
\* concurrent recorders of an explanation error
NumRecorders == 2
\* calls of the recorder by one handler execution
MaxRecords == 2
\* chunks of a slide in the per-chunk pipeline
MaxChunks == 2
\* words of the caption of an image
MaxWords == 5
\* tokens of a text and tokens of a chunk
MaxTokens == 10
MaxChunkSize == 5

Slides == 1..NumSlides
Hashes == 1..NumHashes
Callers == 1..NumCallers
Ingests == 1..NumIngests
Recorders == 1..NumRecorders
Slots == 1..(1 + MaxRedeliveries)

\* ------------------------------------------------------------------ state
VARIABLES
    status,               \* lectures.status
    total_slides,         \* lectures.total_slides
    processed_slides,     \* lectures.processed_slides
    total_sub_images,     \* lectures.total_sub_images
    processed_sub_images, \* lectures.processed_sub_images
    embeddings_complete,  \* lectures.embeddings_complete
    slides,               \* slide numbers that have a slides row
    chunks,               \* slide numbers that have a chunks row
    analysed,             \* image hashes whose slide_images rows carry results
    explanations,         \* explanations row per slide: none / real / fallback
    summary,              \* number of times the summaries row was written
    embeddings,           \* embeddings rows per chunk (by slide number)
    published,            \* jobs handed to the message bus
    exec,                 \* handler executions: job x delivery slot -> pc
    redeliveries,         \* deliveries beyond the first, so far
    crashes,              \* interrupted executions, so far
    complete_writes,      \* writes of status 'complete', so far
    summary_pubs,         \* summary jobs accepted by the bus, so far
    gen_failed,           \* slides whose generation call failed
    row_lock,             \* counter specification: holder of the row lock
    inc,                  \* counter specification: the increment callers
    image_rows,           \* slide_images rows: count per (slide, hash, path)
    uploads,              \* uploads of a sub-image, per hash
    ingest_map,           \* processed_images_map of each ingestion execution
    ingest_jobs,          \* image_analysis_jobs of each ingestion execution
    image_pubs,           \* image-analysis jobs accepted by the bus, per hash
    document,             \* the uploaded document: the hashes of its sub-images
    search_error_details, \* lectures.search_error_details: null or one entry
    explanation_error_details, \* lectures.explanation_error_details: a list
    raised,               \* the exception that ended each handler execution
    recorded,             \* executions that wrote an error entry
    registry,             \* decorative_images_global: rows (hash, path)
    dec,                  \* registry specification: the ingestions
    rec,                  \* recorder specification: the error recorders
    chunkdb,              \* per-chunk pipeline: slides, queues and vectors
    emb,                  \* per-chunk pipeline: the embed handler executions
    call                  \* function specifications: the input and the result

lectureVars == <<status, total_slides, processed_slides, total_sub_images,
                 processed_sub_images, embeddings_complete>>
tableVars == <<slides, chunks, analysed, explanations, summary, embeddings>>
busVars == <<published, summary_pubs>>
envVars == <<redeliveries, crashes>>
incVars == <<row_lock, inc>>
ingVars == <<image_rows, uploads, ingest_map, ingest_jobs, image_pubs,
            document>>
errVars == <<search_error_details, explanation_error_details, raised,
            recorded>>
moreVars == <<chunkdb, emb, call>>
sideVars == <<registry, dec, rec, moreVars>>
vars == <<lectureVars, tableVars, busVars, envVars, exec, complete_writes,
          gen_failed, incVars, ingVars, errVars, sideVars>>

Statuses == {"new", "parsing", "explaining", "summarising", "complete", "failed"}
Terminal == {"failed", "complete"}

Job(stage, item) == [stage |-> stage, item |-> item]
IngestJob == Job("ingestion", 0)
EmbeddingJob == Job("embedding", 0)
SummaryJob == Job("summary", 0)
ExplanationJob(s) == Job("explanation", s)
ImageJob(h) == Job("image_analysis", h)
Jobs == {IngestJob, EmbeddingJob, SummaryJob}
          \cup {ExplanationJob(s) : s \in Slides}
          \cup {ImageJob(h) : h \in Hashes}

\* the two revisions of the image-analysis orchestrator
Services == {"app", "apps_ai"}
Exec(job, k, svc) == [job |-> job, k |-> k, svc |-> svc]
ExecIds == {Exec(j, k, "app") : j \in Jobs, k \in Slots}
             \cup {Exec(ImageJob(h), k, "apps_ai") : h \in Hashes, k \in Slots}

Idle == [pc |-> "idle", n |-> 0]
Finished == {"acked", "nacked"}
Running(e) == exec[e].pc \notin (Finished \cup {"idle"})

Goto(e, pc) == exec' = [exec EXCEPT ![e].pc = pc]
Cap(n) == IF n < MaxCount THEN n + 1 ELSE n

\* the dictionary an except block stores in an error column: the service,
\* the item it worked on and, for the explanation stage, the server pid of
\* the connection that recorded it (0 where the entry carries none)
ErrorInfo(service, item, pid) ==
    [service |-> service, item |-> item, pid |-> pid]
\* an error column that is NULL
NoError == << >>

\* the endpoints: 204 (acknowledged) when the handler returned; when it
\* raised InvalidAPIKeyError the explanation and summary endpoints and the
\* endpoints of apps/ai answer 204, the other endpoints of app/ turn every
\* exception into a 500 (not acknowledged)
handle_job(stage, svc, how) ==
    CASE how = "none" -> "acked"
      [] how = "invalid_key" /\ (stage \in {"explanation", "summary"}
                                 \/ svc = "apps_ai") -> "acked"
      [] OTHER -> "nacked"

\* the handler of execution e ends: by returning (how = "none") or by the
\* exception how, which its endpoint answers
End(e, how) ==
    /\ exec' = [exec EXCEPT ![e] =
                  [pc |-> handle_job(e.job.stage, e.svc, how), n |-> 0]]
    /\ raised' = [raised EXCEPT ![e] = how]

\* the document: hash h appears on slide ((h - 1) % NumSlides) + 1 and, as a
\* repeated asset, on the last slide
DocImages(s) ==
    {h \in document : s = ((h - 1) % NumSlides) + 1 \/ s = NumSlides}

\* ------------------------------------------------------- shared guards
\* a guard that forgets 'complete' among the excluded statuses
verify_lecture_exists_failed_only(st) == st # "failed"

\* verify_lecture_exists: the lecture is not in a terminal state
verify_lecture_exists(st) == st \notin {"failed", "complete"}

\* verify_lecture_exists(allow_complete): apps/ai excludes 'complete' only
\* when allow_complete is false
verify_lecture_exists_allow(st, allow_complete) ==
    st \notin ({"failed"} \cup (IF allow_complete THEN {} ELSE {"complete"}))

\* ------------------------------------------------------------ delivery
SlotUsed(j, k) == \E svc \in Services :
    Exec(j, k, svc) \in ExecIds /\ exec[Exec(j, k, svc)].pc # "idle"

\* The bus hands a published job to a handler: the first delivery, or a
\* further one (a duplicate, or the retry of an unacknowledged delivery).
Deliver(e) ==
    /\ e.job \in published
    /\ ~SlotUsed(e.job, e.k)
    /\ \A k \in Slots : k < e.k => SlotUsed(e.job, k)
    /\ e.k > 1 => redeliveries < MaxRedeliveries
    /\ exec' = [exec EXCEPT ![e] = [pc |-> "verify", n |-> 0]]
    /\ redeliveries' = IF e.k > 1 THEN redeliveries + 1 ELSE redeliveries
    /\ UNCHANGED <<lectureVars, tableVars, busVars, crashes, complete_writes,
                   gen_failed, incVars,
                   ingVars, errVars, sideVars>>

\* The worker is killed or the request cancelled between two statements:
\* nothing more is written and the delivery is not acknowledged.
Crash(e) ==
    /\ Running(e)
    /\ crashes < MaxCrashes
    /\ crashes' = crashes + 1
    /\ exec' = [exec EXCEPT ![e] = [pc |-> "nacked", n |-> 0]]
    /\ raised' = [raised EXCEPT ![e] = "killed"]
    /\ UNCHANGED <<lectureVars, tableVars, busVars, redeliveries,
                   complete_writes, gen_failed, incVars,
                   ingVars, search_error_details, explanation_error_details,
                   recorded, sideVars>>

\* The bus delivers again a job none of whose deliveries was acknowledged.
Retry(e) ==
    /\ e.job \in published
    /\ e.k > 1
    /\ ~SlotUsed(e.job, e.k)
    /\ \A x \in ExecIds : (x.job = e.job /\ x.k < e.k) =>
           (exec[x].pc = "nacked" \/ (exec[x].pc = "idle" /\ x.svc # e.svc))
    /\ \A k \in Slots : k < e.k => SlotUsed(e.job, k)
    /\ redeliveries < MaxRedeliveries
    /\ redeliveries' = redeliveries + 1
    /\ exec' = [exec EXCEPT ![e] = [pc |-> "verify", n |-> 0]]
    /\ UNCHANGED <<lectureVars, tableVars, busVars, crashes, complete_writes,
                   gen_failed, incVars,
                   ingVars, errVars, sideVars>>

At(e, stage, pc) == e.job.stage = stage /\ e.svc = "app" /\ exec[e].pc = pc

\* ----------------------------------------------------------- ingestion
\* ingest, guard: verify_lecture_exists, else acknowledge and stop
ingest_verify(e) ==
    /\ At(e, "ingestion", "verify")
    /\ Goto(e, IF verify_lecture_exists(status) THEN "clear" ELSE "acked")
    /\ UNCHANGED <<lectureVars, tableVars, busVars, envVars, complete_writes,
                   gen_failed, incVars,
                   ingVars, errVars, sideVars>>

\* ingest: UPDATE lectures SET search_error_details = NULL,
\* explanation_error_details = NULL, at the start of every run
ingest_clear_errors(e) ==
    /\ At(e, "ingestion", "clear")
    /\ search_error_details' = NoError
    /\ explanation_error_details' = NoError
    /\ Goto(e, "open")
    /\ UNCHANGED <<lectureVars, tableVars, busVars, envVars, complete_writes,
                   gen_failed, incVars, ingVars, raised, recorded, sideVars>>

\* ingest: download and open the document, then
\* set_lecture_parsing(total_slides = page_count); a failed download raises
ingest_open(e, Outcomes) ==
    /\ At(e, "ingestion", "open")
    /\ \E o \in Outcomes :
        IF o = "ok"
        THEN /\ status' = "parsing"
             /\ total_slides' = NumSlides
             /\ exec' = [exec EXCEPT ![e] = [pc |-> "page", n |-> 1]]
             /\ UNCHANGED raised
        ELSE /\ Goto(e, "error")
             /\ raised' = [raised EXCEPT ![e] = "exception"]
             /\ UNCHANGED <<status, total_slides>>
    /\ UNCHANGED <<processed_slides, total_sub_images, processed_sub_images,
                   embeddings_complete, tableVars, busVars, envVars,
                   complete_writes, gen_failed, incVars,
                   ingVars, search_error_details, explanation_error_details,
                   recorded, sideVars>>

\* the encoding of the placement of hash h on slide s: the repeated
\* placement on the last slide is the same picture in another encoding
ImageExt(s, h) ==
    IF s = NumSlides /\ ((h - 1) % NumSlides) + 1 # NumSlides
    THEN "jpeg" ELSE "png"

\* process_slide_sub_images: storage_key = lectures/<id>/images/<hash>.<ext>
storage_key(h, ext) == <<h, ext>>
\* render_and_upload_slide_image: lectures/<id>/slides/<n>/full_slide.png
RenderPath == <<0, "full_slide">>
\* processed_images_map.get(image_hash) is None
NoPath == <<0, "none">>

RowKeys == {<<s, h, storage_key(h, x)>> : s \in Slides, h \in Hashes,
                                           x \in {"png", "jpeg"}}
             \cup {<<s, 0, RenderPath>> : s \in Slides}

\* insert_slide_image: a plain INSERT into slide_images, one more row
insert_slide_image(rows, s, h, path) ==
    [rows EXCEPT ![<<s, h, path>>] = Cap(@)]

\* process_slide_sub_images forgetting what it has already stored
is_new_image_always(map, h) == TRUE

\* process_slide_sub_images: is_new_image = storage_path is None
is_new_image(map, h) == map[h] = NoPath

\* process_slide_sub_images, one iteration of the loop over the images of
\* the page.  o = "fail_early": extraction, hashing or the upload raises;
\* o = "fail_late": insert_slide_image raises after the upload and the map
\* entry; the except clause logs and goes on with the next image.
sub_image(acc, s, h, o) ==
    IF o = "fail_early" THEN acc
    ELSE LET new == is_new_image(acc.map, h)
             path == IF new THEN storage_key(h, ImageExt(s, h)) ELSE acc.map[h]
             stored == [acc EXCEPT
                          !.map = IF new THEN [@ EXCEPT ![h] = path] ELSE @,
                          !.ups = IF new THEN [@ EXCEPT ![h] = Cap(@)] ELSE @]
         IN IF o = "fail_late" THEN stored
            ELSE [stored EXCEPT
                    !.rows = insert_slide_image(@, s, h, path),
                    !.jobs = IF new THEN [@ EXCEPT ![h] = Cap(@)] ELSE @]

Least(S) == CHOOSE x \in S : \A y \in S : x <= y

RECURSIVE process_slide_sub_images(_, _, _, _)
\* process_slide_sub_images: the images of page s in document order
process_slide_sub_images(acc, s, images, outcome) ==
    IF images = {} THEN acc
    ELSE LET h == Least(images)
         IN process_slide_sub_images(sub_image(acc, s, h, outcome[h]), s,
                                     images \ {h}, outcome)

\* render_and_upload_slide_image: render, upload, insert_slide_image; when
\* the rendering or the upload raises, the exception is logged and no row
\* is stored
render_and_upload_slide_image(rows, s, o) ==
    IF o = "ok" THEN insert_slide_image(rows, s, 0, RenderPath) ELSE rows

\* ingest: one page in one transaction: get_or_create_slide, the chunks of
\* its text, the full-slide render (answering within Render) and the
\* sub-images
ingest_page(e, Outcomes, Render) ==
    /\ At(e, "ingestion", "page")
    /\ LET s == exec[e].n IN
        /\ slides' = slides \cup {s}
        /\ chunks' = chunks \cup {s}
        /\ \E r \in Render, outcome \in [DocImages(s) -> Outcomes] :
            LET acc == process_slide_sub_images(
                           [map |-> ingest_map[e.k], jobs |-> ingest_jobs[e.k],
                            rows |-> render_and_upload_slide_image(
                                         image_rows, s, r),
                            ups |-> uploads],
                           s, DocImages(s), outcome)
            IN /\ image_rows' = acc.rows
               /\ uploads' = acc.ups
               /\ ingest_map' = [ingest_map EXCEPT ![e.k] = acc.map]
               /\ ingest_jobs' = [ingest_jobs EXCEPT ![e.k] = acc.jobs]
        /\ exec' = [exec EXCEPT ![e] =
                      IF s < NumSlides THEN [pc |-> "page", n |-> s + 1]
                                       ELSE [pc |-> "totals", n |-> 0]]
    /\ UNCHANGED <<lectureVars, analysed, explanations, summary, embeddings,
                   busVars, envVars, complete_writes, gen_failed, incVars,
                   image_pubs, document, errVars, sideVars>>

\* processed_images_map after the loop: the hashes that have a stored path
processed_images_map(k) == {h \in Hashes : ingest_map[k][h] # NoPath}

\* an ingestion that goes on without writing the count of sub-images
ingest_totals_skipped(e) ==
    /\ At(e, "ingestion", "totals")
    /\ Goto(e, "explaining")
    /\ UNCHANGED <<lectureVars, tableVars, busVars, envVars, complete_writes,
                   gen_failed, incVars, ingVars, errVars, sideVars>>

\* ingest: update_lecture_sub_image_count(len(processed_images_map))
ingest_totals(e) ==
    /\ At(e, "ingestion", "totals")
    /\ total_sub_images' = Cardinality(processed_images_map(e.k))
    /\ Goto(e, "explaining")
    /\ UNCHANGED <<status, total_slides, processed_slides,
                   processed_sub_images, embeddings_complete, tableVars,
                   busVars, envVars, complete_writes, gen_failed, incVars,
                   ingVars, errVars, sideVars>>

\* ingest: update_lecture_status('explaining') before any job is published
ingest_explaining(e) ==
    /\ At(e, "ingestion", "explaining")
    /\ status' = "explaining"
    /\ Goto(e, "publish")
    /\ UNCHANGED <<total_slides, processed_slides, total_sub_images,
                   processed_sub_images, embeddings_complete, tableVars,
                   busVars, envVars, complete_writes, gen_failed, incVars,
                   ingVars, errVars, sideVars>>

\* _publish_message: the job is handed to the bus, or publish() raises, or
\* the project id (or the topic) is not configured and the function logs
\* and returns
publish_message(o) ==
    CASE o = "ok" -> "published"
      [] o = "unconfigured" -> "skipped"
      [] OTHER -> "raised"

\* get_slides_with_images_for_lecture, filtered by "if slide_image_path":
\* the slides that have a full-slide render row
slides_with_images ==
    {s \in slides : image_rows[<<s, 0, RenderPath>>] > 0}

\* ingest: publish an explanation job per slide that has a full-slide image
\* (the others are logged and skipped), then the image-analysis jobs of
\* image_analysis_jobs or, when the local total_sub_images is 0, the
\* embedding job; a publish that raises ends in the error path
ingest_publish(e, Outcomes) ==
    /\ At(e, "ingestion", "publish")
    /\ \E o \in Outcomes :
        CASE publish_message(o) = "published" ->
               /\ published' = published
                    \cup {ExplanationJob(s) : s \in slides_with_images}
                    \cup (IF Cardinality(processed_images_map(e.k)) > 0
                          THEN {ImageJob(h) : h \in {x \in Hashes :
                                                ingest_jobs[e.k][x] > 0}}
                          ELSE {EmbeddingJob})
               /\ image_pubs' =
                    [h \in Hashes |->
                       IF ingest_jobs[e.k][h] > 0 THEN Cap(image_pubs[h])
                                                  ELSE image_pubs[h]]
               /\ Goto(e, "acked")
               /\ UNCHANGED raised
          [] publish_message(o) = "skipped" ->
               /\ Goto(e, "acked")
               /\ UNCHANGED <<published, image_pubs, raised>>
          [] OTHER ->
               /\ Goto(e, "error")
               /\ raised' = [raised EXCEPT ![e] = "exception"]
               /\ UNCHANGED <<published, image_pubs>>
    /\ UNCHANGED <<lectureVars, tableVars, summary_pubs, envVars,
                   complete_writes, gen_failed, incVars, image_rows, uploads,
                   ingest_map, ingest_jobs, document, search_error_details,
                   explanation_error_details, recorded, sideVars>>

\* ingest, except: update_lecture_status('failed', the error entry of the
\* ingestion in the search-track error column), re-raise
ingest_error(e) ==
    /\ At(e, "ingestion", "error")
    /\ status' = "failed"
    /\ search_error_details' = <<ErrorInfo("ingestion", 0, 0)>>
    /\ recorded' = recorded \cup {e}
    /\ End(e, raised[e])
    /\ UNCHANGED <<total_slides, processed_slides, total_sub_images,
                   processed_sub_images, embeddings_complete, tableVars,
                   busVars, envVars, complete_writes, gen_failed, incVars,
                   ingVars, explanation_error_details, sideVars>>

\* --------------------------------------------------------- explanation
\* process_explanation_job, guard 1: verify_lecture_exists
explanation_verify(e) ==
    /\ At(e, "explanation", "verify")
    /\ Goto(e, IF verify_lecture_exists(status) THEN "exists" ELSE "acked")
    /\ UNCHANGED <<lectureVars, tableVars, busVars, envVars, complete_writes,
                   gen_failed, incVars,
                   ingVars, errVars, sideVars>>

\* an idempotency check that never finds the saved explanation
explanation_exists_never(s) == FALSE

\* explanation_exists(slide_id)
explanation_exists(s) == explanations[s] # "none"

\* a handler that lets the generation error escape instead of falling back
after_generation_no_fallback(o) ==
    CASE o = "ok" -> "save_real"
      [] OTHER -> "raise"

\* what the handler does next with the outcome of steps 3 to 5: a failed
\* download and a missing credential raise, a failed generation call is
\* replaced by the fallback explanation
after_generation(o) ==
    CASE o = "ok" -> "save_real"
      [] o = "llm_fail" -> "save_fallback"
      [] OTHER -> "raise"

\* the exception of a failed step: InvalidAPIKeyError when the user's key is
\* missing or cannot be read, another exception otherwise
generation_error(o) == IF o = "no_key" THEN "invalid_key" ELSE "exception"

\* the calls of _record_explanation_error on the way: none on success; one
\* in the fallback branch; one where the key is fetched and one more in the
\* outer except clause for a missing key; one in the outer except clause
\* for a failed download
errors_recorded(o) ==
    CASE o = "ok" -> 0
      [] o = "no_key" -> 2
      [] OTHER -> 1

RECURSIVE record_explanation_errors(_, _, _, _)
\* _record_explanation_error, n times: read the list, append the entry,
\* write the list back (by statement in the recorder specification)
record_explanation_errors(list, s, pid, n) ==
    IF n = 0 THEN list
    ELSE record_explanation_errors(
             Append(list, ErrorInfo("explanation", s, pid)), s, pid, n - 1)

\* process_explanation_job, guard 2 and steps 3 to 5: return when the
\* explanation is already saved; else download the slide image, fetch the
\* user's key and call the model; a failure is recorded in
\* explanation_error_details and then either replaced by the fallback or
\* raised to the endpoint
explanation_generate(e, Outcomes) ==
    /\ At(e, "explanation", "exists")
    /\ IF explanation_exists(e.job.item)
       THEN /\ Goto(e, "acked")
            /\ UNCHANGED <<gen_failed, explanation_error_details, raised,
                           recorded>>
       ELSE \E o \in Outcomes :
            /\ IF after_generation(o) = "raise"
               THEN End(e, generation_error(o))
               ELSE Goto(e, after_generation(o)) /\ UNCHANGED raised
            /\ gen_failed' = IF o = "llm_fail"
                             THEN gen_failed \cup {e.job.item} ELSE gen_failed
            /\ explanation_error_details' =
                   record_explanation_errors(explanation_error_details,
                                             e.job.item, e.k,
                                             errors_recorded(o))
            /\ recorded' = IF errors_recorded(o) > 0
                           THEN recorded \cup {e} ELSE recorded
    /\ UNCHANGED <<lectureVars, tableVars, busVars, envVars, complete_writes,
                   incVars,
                   ingVars, search_error_details, sideVars>>

\* save_explanation: INSERT ... ON CONFLICT (slide_id) DO NOTHING
save_explanation(rows, s, content) ==
    IF rows[s] = "none" THEN [rows EXCEPT ![s] = content] ELSE rows

\* process_explanation_job, step 7
explanation_save(e) ==
    /\ e.job.stage = "explanation" /\ e.svc = "app"
    /\ exec[e].pc \in {"save_real", "save_fallback"}
    /\ explanations' = save_explanation(explanations, e.job.item,
                          IF exec[e].pc = "save_real" THEN "real" ELSE "fallback")
    /\ Goto(e, "increment")
    /\ UNCHANGED <<lectureVars, slides, chunks, analysed, summary, embeddings,
                   busVars, envVars, complete_writes, gen_failed, incVars,
                   ingVars, errVars, sideVars>>

\* a threshold test that is met one slide early
all_slides_processed_early(processed, total) == processed + 1 >= total

\* increment_progress_and_check_completion: the threshold test on the row
\* read back inside the transaction
all_slides_processed(processed, total) == processed >= total

\* process_explanation_job, step 8: increment_progress_and_check_completion
\* (one transaction: increment, read back, set 'summarising' on the last)
explanation_increment(e) ==
    /\ At(e, "explanation", "increment")
    /\ processed_slides' = processed_slides + 1
    /\ LET is_complete == all_slides_processed(processed_slides', total_slides) IN
        /\ status' = IF is_complete THEN "summarising" ELSE status
        /\ Goto(e, IF is_complete THEN "publish" ELSE "acked")
    /\ UNCHANGED <<total_slides, total_sub_images, processed_sub_images,
                   embeddings_complete, tableVars, busVars, envVars,
                   complete_writes, gen_failed, incVars,
                   ingVars, errVars, sideVars>>

\* process_explanation_job: publish_summary_job when is_complete; a publish
\* that raises fails the handler, one that is skipped does not
explanation_publish(e, Outcomes) ==
    /\ At(e, "explanation", "publish")
    /\ \E o \in Outcomes :
        CASE publish_message(o) = "published" ->
               /\ published' = published \cup {SummaryJob}
               /\ summary_pubs' = Cap(summary_pubs)
               /\ Goto(e, "acked")
               /\ UNCHANGED <<explanation_error_details, raised, recorded>>
          [] publish_message(o) = "skipped" ->
               /\ Goto(e, "acked")
               /\ UNCHANGED <<busVars, explanation_error_details, raised,
                              recorded>>
          [] OTHER ->
               /\ End(e, "exception")
               /\ explanation_error_details' =
                      record_explanation_errors(explanation_error_details,
                                                e.job.item, e.k, 1)
               /\ recorded' = recorded \cup {e}
               /\ UNCHANGED busVars
    /\ UNCHANGED <<lectureVars, tableVars, envVars, complete_writes,
                   gen_failed, incVars,
                   ingVars, search_error_details, sideVars>>

\* ------------------------------------------------------------- summary
\* process_summary_job, guard 1: verify_lecture_exists
summary_verify(e) ==
    /\ At(e, "summary", "verify")
    /\ Goto(e, IF verify_lecture_exists(status) THEN "exists" ELSE "acked")
    /\ UNCHANGED <<lectureVars, tableVars, busVars, envVars, complete_writes,
                   gen_failed, incVars,
                   ingVars, errVars, sideVars>>

\* check_summary_exists
check_summary_exists == summary > 0

\* process_summary_job, guard 2: the summary is already saved
summary_check(e) ==
    /\ At(e, "summary", "exists")
    /\ Goto(e, IF check_summary_exists THEN "acked" ELSE "generate")
    /\ UNCHANGED <<lectureVars, tableVars, busVars, envVars, complete_writes,
                   gen_failed, incVars,
                   ingVars, errVars, sideVars>>

\* process_summary_job, steps 3 and 4: get_all_explanations (none: return),
\* then the generation call, which may raise; the except clause logs and
\* re-raises
summary_generate(e, Outcomes) ==
    /\ At(e, "summary", "generate")
    /\ IF \A s \in Slides : explanations[s] = "none"
       THEN Goto(e, "acked") /\ UNCHANGED raised
       ELSE \E o \in Outcomes :
            IF o = "ok" THEN Goto(e, "commit") /\ UNCHANGED raised
                        ELSE End(e, "exception")
    /\ UNCHANGED <<lectureVars, tableVars, busVars, envVars, complete_writes,
                   gen_failed, incVars,
                   ingVars, search_error_details, explanation_error_details,
                   recorded, sideVars>>

\* process_summary_job, step 5, one transaction: save_summary (upsert),
\* UPDATE status = 'summarising', SELECT embeddings_complete
summary_commit(e) ==
    /\ At(e, "summary", "commit")
    /\ summary' = Cap(summary)
    /\ status' = "summarising"
    /\ Goto(e, IF embeddings_complete THEN "complete" ELSE "acked")
    /\ UNCHANGED <<total_slides, processed_slides, total_sub_images,
                   processed_sub_images, embeddings_complete, slides, chunks,
                   analysed, explanations, embeddings, busVars, envVars,
                   complete_writes, gen_failed, incVars,
                   ingVars, errVars, sideVars>>

\* set_lecture_status_to_complete: UPDATE lectures SET status = 'complete'
set_lecture_status_to_complete(st) == "complete"

\* process_summary_job, step 6, after the transaction: the flag was set, so
\* set_lecture_status_to_complete
summary_complete(e) ==
    /\ At(e, "summary", "complete")
    /\ status' = set_lecture_status_to_complete(status)
    /\ complete_writes' = Cap(complete_writes)
    /\ Goto(e, "acked")
    /\ UNCHANGED <<total_slides, processed_slides, total_sub_images,
                   processed_sub_images, embeddings_complete, tableVars,
                   busVars, envVars, gen_failed, incVars, ingVars, errVars, sideVars>>

\* ----------------------------------------------------------- embedding
\* process_embedding_job, guard: verify_lecture_exists
embedding_verify(e) ==
    /\ At(e, "embedding", "verify")
    /\ Goto(e, IF verify_lecture_exists(status) THEN "chunks" ELSE "acked")
    /\ UNCHANGED <<lectureVars, tableVars, busVars, envVars, complete_writes,
                   gen_failed, incVars,
                   ingVars, errVars, sideVars>>

\* the rendezvous test of the embedding track on the status returned by
\* set_embeddings_complete
rendezvous_status(current_status) ==
    IF current_status = "summarising"
    THEN set_lecture_status_to_complete(current_status)
    ELSE current_status

\* process_embedding_job, steps 2 to 5: get_lecture_chunks; with no chunk
\* the flag is set at once (one transaction); else the chunks read are kept,
\* the user's key is fetched and the batch generation call made: a missing
\* key, a failed call or a result count that differs from the chunk count
\* raises
embedding_generate(e, Outcomes) ==
    /\ At(e, "embedding", "chunks")
    /\ IF chunks = {}
       THEN /\ embeddings_complete' = TRUE
            /\ status' = rendezvous_status(status)
            /\ complete_writes' = IF status' # status THEN Cap(complete_writes)
                                                      ELSE complete_writes
            /\ Goto(e, "acked")
            /\ UNCHANGED raised
       ELSE /\ \E o \in Outcomes :
                 /\ exec' = [exec EXCEPT ![e] =
                              IF o = "ok"
                              THEN [pc |-> "commit", n |-> Cardinality(chunks)]
                              ELSE [pc |-> "error", n |-> 0]]
                 /\ raised' = IF o = "ok" THEN raised
                              ELSE [raised EXCEPT ![e] = generation_error(o)]
            /\ UNCHANGED <<embeddings_complete, status, complete_writes>>
    /\ UNCHANGED <<total_slides, processed_slides, total_sub_images,
                   processed_sub_images, tableVars, busVars, envVars,
                   gen_failed, incVars, ingVars, search_error_details,
                   explanation_error_details, recorded, sideVars>>

\* an INSERT that has no conflict clause: one more row each time
upsert_embedding_plain(rows, c) == [rows EXCEPT ![c] = Cap(@)]

\* batch_upsert_embeddings, one row: INSERT INTO embeddings ... ON CONFLICT
\* (chunk_id) DO UPDATE: a new row when the chunk has none, else the row of
\* the chunk is rewritten
upsert_embedding(rows, c) == [rows EXCEPT ![c] = IF @ = 0 THEN 1 ELSE @]

\* a batch that stores nothing
batch_upsert_embeddings_none(rows, batch) == rows

\* batch_upsert_embeddings: executemany over the chunks of the batch
batch_upsert_embeddings(rows, batch) ==
    [c \in Slides |-> IF c \in batch THEN upsert_embedding(rows, c)[c]
                                     ELSE rows[c]]

\* process_embedding_job, step 6, one transaction: batch_upsert_embeddings,
\* set_embeddings_complete RETURNING status, and 'complete' if 'summarising'
embedding_commit(e) ==
    /\ At(e, "embedding", "commit")
    /\ embeddings' = batch_upsert_embeddings(
                        embeddings, {c \in chunks : c <= exec[e].n})
    /\ embeddings_complete' = TRUE
    /\ status' = rendezvous_status(status)
    /\ complete_writes' = IF status' # status THEN Cap(complete_writes)
                                              ELSE complete_writes
    /\ exec' = [exec EXCEPT ![e] = [pc |-> "acked", n |-> 0]]
    /\ UNCHANGED <<total_slides, processed_slides, total_sub_images,
                   processed_sub_images, slides, chunks, analysed,
                   explanations, summary, busVars, envVars, gen_failed,
                   incVars, ingVars, errVars, sideVars>>

\* process_embedding_job, except: UPDATE lectures SET status = 'failed',
\* search_error_details = ..., then re-raise
embedding_error(e) ==
    /\ At(e, "embedding", "error")
    /\ status' = "failed"
    /\ search_error_details' = <<ErrorInfo("embedding", 0, 0)>>
    /\ recorded' = recorded \cup {e}
    /\ End(e, raised[e])
    /\ UNCHANGED <<total_slides, processed_slides, total_sub_images,
                   processed_sub_images, embeddings_complete, tableVars,
                   busVars, envVars, complete_writes, gen_failed, incVars,
                   ingVars, explanation_error_details, sideVars>>

\* ------------------------------------------------------ image analysis
AtSvc(e, svc, pc) ==
    e.job.stage = "image_analysis" /\ e.svc = svc /\ exec[e].pc = pc

\* process_image_analysis_job, guard and steps 2 to 4: app/ stops on
\* 'failed' and 'complete', apps/ai passes allow_complete=True; then the
\* storage path, the download and the analysis call, whose failure raises
\* (except: the search-track error column of the lecture is overwritten
\* with the entry of this job, the status is not written)
image_analyse(e, Outcomes) ==
    /\ e.job.stage = "image_analysis" /\ exec[e].pc = "verify"
    /\ IF verify_lecture_exists_allow(status, e.svc = "apps_ai")
       THEN \E o \in Outcomes :
            IF o = "ok"
            THEN /\ Goto(e, "commit")
                 /\ UNCHANGED <<search_error_details, raised, recorded>>
            ELSE /\ End(e, "exception")
                 /\ search_error_details' =
                        <<ErrorInfo("image_analysis", e.job.item, 0)>>
                 /\ recorded' = recorded \cup {e}
       ELSE /\ Goto(e, "acked")
            /\ UNCHANGED <<search_error_details, raised, recorded>>
    /\ UNCHANGED <<lectureVars, tableVars, busVars, envVars, complete_writes,
                   gen_failed, incVars,
                   ingVars, explanation_error_details, sideVars>>

\* the fan-out test of app/ on the values returned by the increment
last_image(processed_count, total_count) ==
    total_count > 0 /\ processed_count = total_count

\* process_image_analysis_job, steps 5 and 6, one transaction:
\* update_image_analysis_results and increment_processed_images_count;
\* app/ then tests the returned counts, apps/ai does not publish
image_commit(e) ==
    /\ e.job.stage = "image_analysis" /\ exec[e].pc = "commit"
    /\ analysed' = analysed \cup {e.job.item}
    /\ processed_sub_images' = processed_sub_images + 1
    /\ Goto(e, IF e.svc = "app"
                   /\ last_image(processed_sub_images', total_sub_images)
               THEN "publish" ELSE "acked")
    /\ UNCHANGED <<status, total_slides, processed_slides, total_sub_images,
                   embeddings_complete, slides, chunks, explanations, summary,
                   embeddings, busVars, envVars, complete_writes, gen_failed,
                   incVars,
                   ingVars, errVars, sideVars>>

\* process_image_analysis_job (app/), step 7: publish_embedding_job
image_publish(e, Outcomes) ==
    /\ AtSvc(e, "app", "publish")
    /\ \E o \in Outcomes :
        CASE publish_message(o) = "published" ->
               /\ published' = published \cup {EmbeddingJob}
               /\ Goto(e, "acked")
               /\ UNCHANGED <<search_error_details, raised, recorded>>
          [] publish_message(o) = "skipped" ->
               /\ Goto(e, "acked")
               /\ UNCHANGED <<published, search_error_details, raised,
                              recorded>>
          [] OTHER ->
               /\ End(e, "exception")
               /\ search_error_details' =
                      <<ErrorInfo("image_analysis", e.job.item, 0)>>
               /\ recorded' = recorded \cup {e}
               /\ UNCHANGED published
    /\ UNCHANGED <<lectureVars, tableVars, summary_pubs, envVars,
                   complete_writes, gen_failed, incVars,
                   ingVars, explanation_error_details, sideVars>>

\* ------------------------------------------------ side specifications
\* the ingestions of the registry specification and the error recorders of
\* the recorder specification, before they start
NoGlobalKey == [hash |-> 0, owner |-> 0]
IdleIngest == [pc |-> "idle", images |-> << >>, path |-> NoGlobalKey,
               pending |-> {}, rows |-> {}]
IdleRecorder == [pc |-> "idle", slide |-> 0, read |-> << >>, left |-> 0,
                 calls |-> 0, start |-> << >>]
\* the chunks of the per-chunk pipeline: chunk i of slide s
ChunkIds == Slides \X (1..MaxChunks)
\* the executions of the embed handler: delivery k of the job of a chunk
EmbIds == ChunkIds \X Slots
IdleSlide == [exists |-> FALSE, total_chunks |-> 0, processed_chunks |-> 0]
IdleChunkDb == [slide |-> [s \in Slides |-> IdleSlide],
                queue |-> [c \in ChunkIds |-> 0],
                vectors |-> [c \in ChunkIds |-> 0],
                expl |-> [s \in Slides |-> 0],
                doc |-> [s \in Slides |-> 0],
                ing |-> [k \in Slots |-> 0],
                redelivered |-> 0]
IdleEmbed == [pc |-> "idle", processed |-> 0, total |-> 0, set |-> FALSE]
NoCall == [op |-> "none", arg |-> << >>, result |-> << >>]
MoreIdle ==
    /\ chunkdb = IdleChunkDb
    /\ emb = [x \in EmbIds |-> IdleEmbed]
    /\ call = NoCall
SideIdle ==
    /\ registry = {}
    /\ dec = [c \in Ingests |-> IdleIngest]
    /\ rec = [c \in Recorders |-> IdleRecorder]
    /\ MoreIdle
pipelineVars == <<lectureVars, tableVars, busVars, envVars, exec,
                  complete_writes, gen_failed, incVars, ingVars, errVars>>

\* ------------------------------------------------------- specifications
\* The lecture row as the API created it for the uploaded document D, the
\* ingestion job published.
InitLecture(D) ==
    /\ document = D
    /\ status = "new"
    /\ total_slides = 0
    /\ processed_slides = 0
    /\ total_sub_images = 0
    /\ processed_sub_images = 0
    /\ embeddings_complete = FALSE
    /\ slides = {}
    /\ chunks = {}
    /\ analysed = {}
    /\ explanations = [s \in Slides |-> "none"]
    /\ summary = 0
    /\ embeddings = [c \in Slides |-> 0]
    /\ published = {IngestJob}
    /\ summary_pubs = 0
    /\ exec = [e \in ExecIds |-> Idle]
    /\ redeliveries = 0
    /\ crashes = 0
    /\ complete_writes = 0
    /\ gen_failed = {}
    /\ row_lock = 0
    /\ inc = [c \in Callers |-> [pc |-> "idle", kind |-> "none", tx |-> 0,
                                 processed |-> 0, total |-> 0,
                                 start |-> 0]]
    /\ image_rows = [r \in RowKeys |-> 0]
    /\ uploads = [h \in Hashes |-> 0]
    /\ ingest_map = [k \in Slots |-> [h \in Hashes |-> NoPath]]
    /\ ingest_jobs = [k \in Slots |-> [h \in Hashes |-> 0]]
    /\ image_pubs = [h \in Hashes |-> 0]
    /\ search_error_details = NoError
    /\ explanation_error_details = NoError
    /\ raised = [e \in ExecIds |-> "none"]
    /\ recorded = {}

InitWith(D) == InitLecture(D) /\ SideIdle

\* the documents: no sub-image, one, ... up to NumHashes distinct ones
Documents == {1..n : n \in 0..NumHashes}

Init == \E D \in Documents : InitWith(D)

\* a document with one sub-image, placed on the first and the last slide
InitOneImage == InitWith({1})

OkOrFail == {"ok", "fail"}
OnlyOk == {"ok"}
GenerationOutcomes == {"ok", "llm_fail", "download_fail", "no_key"}

SubImageOutcomes == {"ok", "fail_early", "fail_late"}
PublishOutcomes == {"ok", "fail", "unconfigured"}

\* the steps of the handlers, external calls answering within Ext, the
\* generation call of the explanation stage within Gen, the publish calls
\* within Pub, the processing of a sub-image within Sub and the rendering
\* and upload of a full-slide image within Ren
Handlers(e, Ext, Gen, Pub, Sub, Ren) ==
    \/ ingest_verify(e)
    \/ ingest_clear_errors(e)
    \/ ingest_open(e, Ext)
    \/ ingest_page(e, Sub, Ren)
    \/ ingest_totals(e)
    \/ ingest_explaining(e)
    \/ ingest_publish(e, Pub)
    \/ image_analyse(e, Ext)
    \/ image_commit(e)
    \/ image_publish(e, Pub)
    \/ embedding_verify(e)
    \/ embedding_generate(e, Ext \cup (Gen \cap {"no_key"}))
    \/ embedding_commit(e)
    \/ explanation_verify(e)
    \/ explanation_generate(e, Gen)
    \/ explanation_save(e)
    \/ explanation_increment(e)
    \/ explanation_publish(e, Pub)
    \/ summary_verify(e)
    \/ summary_check(e)
    \/ summary_generate(e, Ext)
    \/ summary_commit(e)
    \/ summary_complete(e)

\* the except blocks that write the status
ErrorPaths(e) ==
    \/ ingest_error(e)
    \/ embedding_error(e)

AppExecs == {e \in ExecIds : e.svc = "app"}

\* The pipeline of app/ under at-least-once delivery: jobs are redelivered,
\* external calls fail and executions are interrupted.
Next ==
    \E e \in AppExecs :
        \/ Deliver(e)
        \/ Crash(e)
        \/ Handlers(e, OkOrFail, GenerationOutcomes, PublishOutcomes,
                    SubImageOutcomes, OkOrFail)
        \/ ErrorPaths(e)

Spec == Init /\ [][Next]_vars

\* The pipeline of app/ when every job is delivered once and no handler
\* fails; only the generation call of the explanation stage may fail.
NextOnce ==
    \E e \in {x \in AppExecs : x.k = 1} :
        \/ Deliver(e)
        \/ Handlers(e, OnlyOk, {"ok", "llm_fail"}, OnlyOk, OnlyOk, OnlyOk)

SpecOnce == Init /\ [][NextOnce]_vars

\* The pipeline of app/ when no external call fails but an execution may be
\* interrupted; the bus then delivers the unacknowledged job again.
NextRetry ==
    \/ \E e \in {x \in AppExecs : x.k = 1} : Deliver(e)
    \/ \E e \in AppExecs :
        \/ Retry(e)
        \/ Crash(e)
        \/ Handlers(e, OnlyOk, OnlyOk, OnlyOk, OnlyOk, OnlyOk)

SpecRetry == Init /\ [][NextRetry]_vars

\* The image-analysis subscription served by either revision of the
\* orchestrator (app/ or apps/ai), the rest of the pipeline as in Spec but
\* without interrupted executions.
NextGuard ==
    \E e \in ExecIds :
        \/ Deliver(e)
        \/ Handlers(e, OkOrFail, OnlyOk, OkOrFail, OnlyOk, OnlyOk)
        \/ ErrorPaths(e)

SpecGuard == InitOneImage /\ [][NextGuard]_vars

\* The pipeline of app/ when no call fails and the bus delivers jobs more
\* than once, the deliveries of a job overlapping or following each other.
NextDup ==
    \E e \in AppExecs :
        \/ Deliver(e)
        \/ Handlers(e, OnlyOk, OnlyOk, OnlyOk, OnlyOk, OnlyOk)

SpecDup == Init /\ [][NextDup]_vars

\* The pipeline of app/ when a publish call may raise; the bus delivers the
\* unacknowledged job again.
NextPublish ==
    \/ \E e \in {x \in AppExecs : x.k = 1} : Deliver(e)
    \/ \E e \in AppExecs :
        \/ Retry(e)
        \/ Handlers(e, OnlyOk, OnlyOk, OkOrFail, OnlyOk, OnlyOk)
        \/ ingest_error(e)

SpecPublish == Init /\ [][NextPublish]_vars

\* The pipeline of app/, every job delivered once, on a deployment whose
\* project id may be missing from the settings.
NextConfig ==
    \E e \in {x \in AppExecs : x.k = 1} :
        \/ Deliver(e)
        \/ Handlers(e, OnlyOk, OnlyOk, {"ok", "unconfigured"}, OnlyOk, OnlyOk)

SpecConfig == Init /\ [][NextConfig]_vars

\* The pipeline of app/, every job delivered once, when the processing of a
\* sub-image may fail and be skipped.
NextSubImage ==
    \E e \in {x \in AppExecs : x.k = 1} :
        \/ Deliver(e)
        \/ Handlers(e, OnlyOk, OnlyOk, OnlyOk, SubImageOutcomes, OnlyOk)

SpecSubImage == Init /\ [][NextSubImage]_vars

\* The pipeline when every job is delivered once and only the rendering or
\* the upload of a full-slide image may fail.
NextRender ==
    \E e \in {x \in AppExecs : x.k = 1} :
        \/ Deliver(e)
        \/ Handlers(e, OnlyOk, OnlyOk, OnlyOk, OnlyOk, OkOrFail)

SpecRender == Init /\ [][NextRender]_vars

\* The pipeline when every job is delivered once and the only failure is
\* that the user's key is missing or cannot be read.
NextCredential ==
    \E e \in {x \in AppExecs : x.k = 1} :
        \/ Deliver(e)
        \/ Handlers(e, OnlyOk, {"ok", "no_key"}, OnlyOk, OnlyOk, OnlyOk)
        \/ embedding_error(e)

SpecCredential == Init /\ [][NextCredential]_vars

\* The pipeline when an external call (download, analysis, generation) may
\* fail and the bus delivers again a job that was not acknowledged.
NextTransient ==
    \E e \in AppExecs :
        \/ (e.k = 1 /\ Deliver(e))
        \/ Retry(e)
        \/ Handlers(e, OkOrFail, OnlyOk, OnlyOk, OnlyOk, OnlyOk)
        \/ ErrorPaths(e)

SpecTransient == Init /\ [][NextTransient]_vars

\* --------------------------------------------- the counter, by statement
\* The two increments on the lectures row, statement by statement, with the
\* row lock an UPDATE takes until its transaction commits.  inc[c].tx is the
\* row version the caller's transaction wrote and has not yet committed.

\* an increment that does not wait for the row lock (read, then write)
row_lock_ignored == TRUE

\* an UPDATE of the lectures row waits while another transaction holds the
\* row lock
row_lock_free == row_lock = 0

\* increment_processed_images_count: UPDATE lectures SET processed_sub_images
\* = processed_sub_images + 1 ... RETURNING processed_sub_images,
\* total_sub_images, inside the image-analysis transaction
increment_processed_images_count(c) ==
    /\ inc[c].pc = "update" /\ inc[c].kind = "images"
    /\ row_lock_free
    /\ row_lock' = c
    /\ inc' = [inc EXCEPT ![c].pc = "commit",
                          ![c].tx = processed_sub_images + 1,
                          ![c].processed = processed_sub_images + 1,
                          ![c].total = total_sub_images]
    /\ UNCHANGED <<lectureVars, tableVars, busVars, envVars, exec,
                   complete_writes, gen_failed,
                   ingVars, errVars, sideVars>>

\* increment_progress_and_check_completion, first statement: UPDATE lectures
\* SET processed_slides = processed_slides + 1
increment_progress(c) ==
    /\ inc[c].pc = "update" /\ inc[c].kind = "slides"
    /\ row_lock_free
    /\ row_lock' = c
    /\ inc' = [inc EXCEPT ![c].pc = "select", ![c].tx = processed_slides + 1]
    /\ UNCHANGED <<lectureVars, tableVars, busVars, envVars, exec,
                   complete_writes, gen_failed,
                   ingVars, errVars, sideVars>>

\* increment_progress_and_check_completion, second statement: SELECT
\* processed_slides, total_slides on the same connection, which sees the row
\* version its own transaction wrote
check_completion(c) ==
    /\ inc[c].pc = "select"
    /\ inc' = [inc EXCEPT ![c].pc = "commit",
                          ![c].processed = inc[c].tx,
                          ![c].total = total_slides]
    /\ UNCHANGED <<lectureVars, tableVars, busVars, envVars, exec,
                   complete_writes, gen_failed, row_lock,
                   ingVars, errVars, sideVars>>

\* the end of the transaction: the row version becomes the committed row
\* (with 'summarising' when the slide threshold was met) and the lock is
\* released
commit_increment(c) ==
    /\ inc[c].pc = "commit"
    /\ IF inc[c].kind = "slides"
       THEN /\ processed_slides' = inc[c].tx
            /\ status' = IF all_slides_processed(inc[c].processed, inc[c].total)
                         THEN "summarising" ELSE status
            /\ UNCHANGED processed_sub_images
       ELSE /\ processed_sub_images' = inc[c].tx
            /\ UNCHANGED <<processed_slides, status>>
    /\ row_lock' = 0
    /\ inc' = [inc EXCEPT ![c].pc = "done"]
    /\ UNCHANGED <<total_slides, total_sub_images, embeddings_complete,
                   tableVars, busVars, envVars, exec, complete_writes,
                   gen_failed,
                   ingVars, errVars, sideVars>>

RECURSIVE ingest_pages(_, _)
\* ingest: the page loop from page s on, no sub-image failing
ingest_pages(acc, s) ==
    IF s > NumSlides THEN acc
    ELSE ingest_pages(
             process_slide_sub_images(
                 [acc EXCEPT !.rows = insert_slide_image(@, s, 0, RenderPath)],
                 s, DocImages(s), [h \in DocImages(s) |-> "ok"]),
             s + 1)

\* the tables after one ingestion pass
Ingested ==
    ingest_pages([map |-> [h \in Hashes |-> NoPath],
                  jobs |-> [h \in Hashes |-> 0],
                  rows |-> [r \in RowKeys |-> 0],
                  ups |-> [h \in Hashes |-> 0]], 1)

\* A lecture after ingestion whose counters stand at some value, and
\* NumCallers handlers about to increment one counter or the other.
InitIncrement ==
    /\ document = Hashes
    /\ status = "explaining"
    /\ total_slides = NumSlides
    /\ total_sub_images = Cardinality(document)
    /\ processed_slides \in 0..MaxStart
    /\ processed_sub_images \in 0..MaxStart
    /\ embeddings_complete = FALSE
    /\ slides = Slides
    /\ chunks = Slides
    /\ analysed = {}
    /\ explanations = [s \in Slides |-> "none"]
    /\ summary = 0
    /\ embeddings = [c \in Slides |-> 0]
    /\ published = {IngestJob}
    /\ summary_pubs = 0
    /\ exec = [e \in ExecIds |-> Idle]
    /\ redeliveries = 0
    /\ crashes = 0
    /\ complete_writes = 0
    /\ gen_failed = {}
    /\ row_lock = 0
    /\ image_rows = Ingested.rows
    /\ uploads = Ingested.ups
    /\ ingest_map = [k \in Slots |-> IF k = 1 THEN Ingested.map
                                   ELSE [h \in Hashes |-> NoPath]]
    /\ ingest_jobs = [k \in Slots |-> IF k = 1 THEN Ingested.jobs
                                    ELSE [h \in Hashes |-> 0]]
    /\ image_pubs = Ingested.jobs
    /\ search_error_details = NoError
    /\ explanation_error_details = NoError
    /\ raised = [e \in ExecIds |-> "none"]
    /\ recorded = {}
    /\ SideIdle
    /\ \E kinds \in [Callers -> {"slides", "images"}] :
         inc = [c \in Callers |->
                  [pc |-> "update", kind |-> kinds[c], tx |-> 0,
                   processed |-> 0, total |-> 0,
                   start |-> IF kinds[c] = "slides" THEN processed_slides
                             ELSE processed_sub_images]]

NextIncrement ==
    \E c \in Callers :
        \/ increment_processed_images_count(c)
        \/ increment_progress(c)
        \/ check_completion(c)
        \/ commit_increment(c)

SpecIncrement == InitIncrement /\ [][NextIncrement]_vars

\* ------------------------------------- the decorative registry, by statement
\* process_slide_images of the per-chunk ingestion, decorative branch, inside
\* the page transaction of each of NumIngests concurrent ingestions.
\* registry holds the committed rows of decorative_images_global (image_hash
\* is its key), dec[c].pending the rows ingestion c inserted and has not yet
\* committed, dec[c].rows the slide_images rows of its lecture.

\* a key under the lecture of the ingestion, as the content branch builds it
global_image_key_per_lecture(h, c) == [hash |-> h, owner |-> c]

\* img_key = global/images/<phash>.png
global_image_key(h, c) == [hash |-> h, owner |-> 0]

\* the rows a statement of ingestion c sees: the committed ones and its own
visible(c) == registry \cup dec[c].pending

\* find_decorative_image; on a miss the image is uploaded under the global
\* key and that key becomes img_path
find_decorative_image(c) ==
    /\ dec[c].pc = "find"
    /\ LET h == Head(dec[c].images)
           existing == {r \in visible(c) : r.hash = h}
       IN dec' = [dec EXCEPT
                    ![c].path = IF existing = {} THEN global_image_key(h, c)
                                ELSE (CHOOSE r \in existing : TRUE).path,
                    ![c].pc = IF existing = {} THEN "insert"
                              ELSE "slide_image"]
    /\ UNCHANGED <<pipelineVars, registry, rec, moreVars>>

\* insert_decorative_image: INSERT ... ON CONFLICT DO NOTHING.  The statement
\* waits while another transaction holds an uncommitted row of the same
\* hash; it inserts nothing when a committed row of the hash exists.
insert_decorative_image(c) ==
    /\ dec[c].pc = "insert"
    /\ LET h == Head(dec[c].images) IN
        /\ \A d \in Ingests \ {c} : \A r \in dec[d].pending : r.hash # h
        /\ dec' = [dec EXCEPT
                     ![c].pending =
                        IF \E r \in visible(c) : r.hash = h THEN @
                        ELSE @ \cup {[hash |-> h, path |-> dec[c].path]},
                     ![c].pc = "slide_image"]
    /\ UNCHANGED <<pipelineVars, registry, rec, moreVars>>

\* insert_slide_image of the per-chunk ingestion: the image instance of the
\* lecture, with img_path as its storage location
ingest_insert_slide_image(c) ==
    /\ dec[c].pc = "slide_image"
    /\ dec' = [dec EXCEPT
                 ![c].rows = @ \cup {[hash |-> Head(dec[c].images),
                                      path |-> dec[c].path]},
                 ![c].images = Tail(@),
                 ![c].pc = IF Len(dec[c].images) > 1 THEN "find"
                           ELSE "commit"]
    /\ UNCHANGED <<pipelineVars, registry, rec, moreVars>>

\* the end of the page transaction: the pending rows are committed
commit_page(c) ==
    /\ dec[c].pc = "commit"
    /\ registry' = registry \cup dec[c].pending
    /\ dec' = [dec EXCEPT ![c].pending = {}, ![c].pc = "done"]
    /\ UNCHANGED <<pipelineVars, rec, moreVars>>

\* the decorative images of a page: up to MaxImages hashes
PageImages ==
    UNION {[1..n -> Hashes] : n \in 1..MaxImages}

\* NumIngests ingestions, each about to process the decorative images of a
\* page, the registry empty
InitRegistry ==
    /\ InitLecture({})
    /\ MoreIdle
    /\ registry = {}
    /\ rec = [c \in Recorders |-> IdleRecorder]
    /\ \E images \in [Ingests -> PageImages] :
         dec = [c \in Ingests |->
                  [pc |-> "find", images |-> images[c], path |-> NoGlobalKey,
                   pending |-> {}, rows |-> {}]]

NextRegistry ==
    \E c \in Ingests :
        \/ find_decorative_image(c)
        \/ insert_decorative_image(c)
        \/ ingest_insert_slide_image(c)
        \/ commit_page(c)

SpecRegistry == InitRegistry /\ [][NextRegistry]_vars


\* ------------------------------------- the error recorder, by statement
\* _record_explanation_error as the explanation handlers of one lecture run
\* it, each on its own connection and outside any transaction: a SELECT of
\* explanation_error_details, then an UPDATE that stores the list read with
\* the new entry appended.  rec[c].left is the number of calls the handler
\* still makes (one in the except clause, one more where the key is fetched).

\* _record_explanation_error, first statement: SELECT
\* explanation_error_details
read_error_details(c) ==
    /\ rec[c].pc = "read"
    /\ rec' = [rec EXCEPT ![c].read = explanation_error_details,
                          ![c].pc = "write"]
    /\ UNCHANGED <<lectureVars, tableVars, busVars, envVars, exec,
                   complete_writes, gen_failed, incVars, ingVars,
                   errVars, registry, dec, moreVars>>

\* _record_explanation_error, second statement: UPDATE lectures SET
\* explanation_error_details = the list read, with error_info appended
write_error_details(c) ==
    /\ rec[c].pc = "write"
    /\ explanation_error_details' =
           Append(rec[c].read, ErrorInfo("explanation", rec[c].slide, c))
    /\ rec' = [rec EXCEPT ![c].left = @ - 1,
                          ![c].pc = IF rec[c].left > 1 THEN "read" ELSE "done"]
    /\ UNCHANGED <<lectureVars, tableVars, busVars, envVars, exec,
                   complete_writes, gen_failed, incVars, ingVars,
                   search_error_details, raised, recorded, registry, dec,
                   moreVars>>

\* A lecture in 'explaining' whose error list is empty or holds an earlier
\* entry, and NumRecorders handlers that are about to record an error.
InitRecord ==
    /\ document = Hashes
    /\ status = "explaining"
    /\ total_slides = NumSlides
    /\ total_sub_images = Cardinality(document)
    /\ processed_slides = 0
    /\ processed_sub_images = 0
    /\ embeddings_complete = FALSE
    /\ slides = Slides
    /\ chunks = Slides
    /\ analysed = {}
    /\ explanations = [s \in Slides |-> "none"]
    /\ summary = 0
    /\ embeddings = [c \in Slides |-> 0]
    /\ published = {IngestJob}
    /\ summary_pubs = 0
    /\ exec = [e \in ExecIds |-> Idle]
    /\ redeliveries = 0
    /\ crashes = 0
    /\ complete_writes = 0
    /\ gen_failed = {}
    /\ row_lock = 0
    /\ inc = [c \in Callers |-> [pc |-> "idle", kind |-> "none", tx |-> 0,
                                 processed |-> 0, total |-> 0,
                                 start |-> 0]]
    /\ image_rows = Ingested.rows
    /\ uploads = Ingested.ups
    /\ ingest_map = [k \in Slots |-> IF k = 1 THEN Ingested.map
                                   ELSE [h \in Hashes |-> NoPath]]
    /\ ingest_jobs = [k \in Slots |-> IF k = 1 THEN Ingested.jobs
                                    ELSE [h \in Hashes |-> 0]]
    /\ image_pubs = Ingested.jobs
    /\ search_error_details = NoError
    /\ explanation_error_details \in
           {NoError, <<ErrorInfo("explanation", 1, 0)>>}
    /\ raised = [e \in ExecIds |-> "none"]
    /\ recorded = {}
    /\ registry = {}
    /\ dec = [c \in Ingests |-> IdleIngest]
    /\ MoreIdle
    /\ \E slide \in [Recorders -> Slides], n \in [Recorders -> 1..MaxRecords] :
         rec = [c \in Recorders |->
                  [pc |-> "read", slide |-> slide[c], read |-> << >>,
                   left |-> n[c], calls |-> n[c],
                   start |-> explanation_error_details]]

NextRecord ==
    \E c \in Recorders :
        \/ read_error_details(c)
        \/ write_error_details(c)

SpecRecord == InitRecord /\ [][NextRecord]_vars

\* --------------------------------- the per-chunk pipeline, by statement
\* app/services/ingest and app/services/embed: ingestion stores the slides
\* and the chunks page by page, one transaction a page, and sends one
\* embedding job a chunk; the embed handler stores the vector of one chunk,
\* counts it on the slide and, when the slide is complete, sends the
\* explanation job and looks whether the lecture is complete. The embed
\* transaction is taken statement by statement under READ COMMITTED: a
\* statement reads what is committed and what its own transaction wrote.
chunkFrame == <<processed_slides, total_sub_images, processed_sub_images,
                embeddings_complete, tableVars, busVars, envVars, exec,
                complete_writes, gen_failed, incVars, ingVars, errVars,
                registry, dec, rec, call>>

SlideOf(x) == x[1][1]
ChunkOf(x) == x[1]
\* the chunks chunk_text_by_tokens makes of the text of page s
ChunksOfPage(s) == {c \in ChunkIds : c[1] = s /\ c[2] <= chunkdb.doc[s]}

\* the executions whose open transaction has updated the row of slide s
HoldsSlide(s) ==
    {x \in EmbIds : SlideOf(x) = s /\ emb[x].pc \in {"enqueue", "status", "commit"}}
\* the executions whose open transaction has written the vector of chunk c
HoldsVector(c) ==
    {x \in EmbIds : ChunkOf(x) = c
                    /\ emb[x].pc \in {"progress", "enqueue", "status", "commit"}}
\* the executions whose open transaction has updated the lecture row
HoldsLecture == {x \in EmbIds : emb[x].pc = "commit" /\ emb[x].set}

\* INSERT INTO slides (.., total_chunks, processed_chunks) VALUES (.., 0, 0)
\* ON CONFLICT DO NOTHING: an existing row is kept as it is
get_or_create_slide_upsert(row) ==
    [exists |-> TRUE, total_chunks |-> 0, processed_chunks |-> 0]
get_or_create_slide(row) ==
    IF row.exists THEN row
    ELSE [exists |-> TRUE, total_chunks |-> 0, processed_chunks |-> 0]

update_slide_total_chunks(row, n) == [row EXCEPT !.total_chunks = n]

\* ingest, up to the loop: run k of the ingestion (a second run is a replay
\* of the job over the slides of the first) writes total_slides
chunk_ingest_start(k) ==
    /\ chunkdb.ing[k] = 0
    /\ k > 1 => chunkdb.ing[k - 1] # 0
    /\ chunkdb' = [chunkdb EXCEPT !.ing[k] = 1]
    /\ total_slides' = NumSlides
    /\ UNCHANGED <<status, emb, chunkFrame>>

\* ingest, one page: the transaction of the loop body
chunk_ingest_page(k) ==
    LET s == chunkdb.ing[k] IN
    /\ s \in Slides
    /\ HoldsSlide(s) = {}
    /\ chunkdb' = [chunkdb EXCEPT
           !.slide[s] = update_slide_total_chunks(get_or_create_slide(@),
                                                  chunkdb.doc[s]),
           !.queue = [c \in ChunkIds |->
                         IF c \in ChunksOfPage(s) THEN Cap(@[c]) ELSE @[c]],
           !.ing[k] = s + 1]
    /\ UNCHANGED <<status, total_slides, emb, chunkFrame>>

\* the jobs of chunk c delivered so far
Delivered(c) == Cardinality({x \in EmbIds : ChunkOf(x) = c /\ emb[x].pc # "idle"})

\* embed, lines 37-49: a job of the chunk is delivered (a job sent twice is
\* delivered twice; the queue may deliver one job again), the vector is
\* computed and upsert_embedding writes it in the opened transaction
embed_upsert(x) ==
    /\ emb[x].pc = "idle"
    /\ x[2] = Delivered(ChunkOf(x)) + 1
    /\ chunkdb.queue[ChunkOf(x)] > 0
    /\ \/ Delivered(ChunkOf(x)) < chunkdb.queue[ChunkOf(x)]
          /\ chunkdb' = chunkdb
       \/ Delivered(ChunkOf(x)) >= chunkdb.queue[ChunkOf(x)]
          /\ chunkdb.redelivered < MaxRedeliveries
          /\ chunkdb' = [chunkdb EXCEPT !.redelivered = @ + 1]
    /\ HoldsVector(ChunkOf(x)) = {}
    /\ emb' = [emb EXCEPT ![x].pc = "progress"]
    /\ UNCHANGED <<status, total_slides, chunkFrame>>

\* update_slide_progress: processed_chunks + 1 on the row of the slide,
\* which waits for the transaction that holds the row
update_slide_progress(x) ==
    /\ emb[x].pc = "progress"
    /\ HoldsSlide(SlideOf(x)) = {}
    /\ emb' = [emb EXCEPT
           ![x].pc = "enqueue",
           ![x].processed = Cap(chunkdb.slide[SlideOf(x)].processed_chunks),
           ![x].total = chunkdb.slide[SlideOf(x)].total_chunks]
    /\ UNCHANGED <<status, total_slides, chunkdb, chunkFrame>>

\* the slides the SELECT COUNT of execution x counts: the committed rows,
\* and the row of its own slide as its transaction left it
incomplete(x) ==
    {s \in Slides :
        /\ chunkdb.slide[s].exists
        /\ IF s = SlideOf(x) THEN emb[x].processed < emb[x].total
           ELSE chunkdb.slide[s].processed_chunks < chunkdb.slide[s].total_chunks}

\* enqueue_explanation_job_if_complete: when the slide is complete the job
\* is sent and _check_and_update_lecture_status counts the incomplete slides
enqueue_explanation_job_if_complete(x) ==
    /\ emb[x].pc = "enqueue"
    /\ emb' = [emb EXCEPT ![x].pc =
           IF emb[x].processed = emb[x].total /\ incomplete(x) = {}
           THEN "status" ELSE "commit"]
    /\ UNCHANGED <<status, total_slides, chunkdb, chunkFrame>>

\* _check_and_update_lecture_status, the UPDATE: it waits for the
\* transaction that holds the lecture row
_check_and_update_lecture_status(x) ==
    /\ emb[x].pc = "status"
    /\ HoldsLecture = {}
    /\ emb' = [emb EXCEPT ![x].pc = "commit", ![x].set = TRUE]
    /\ UNCHANGED <<status, total_slides, chunkdb, chunkFrame>>

\* the transaction of embed commits
embed_commit(x) ==
    /\ emb[x].pc = "commit"
    /\ emb' = [emb EXCEPT ![x].pc = "done"]
    /\ chunkdb' = [chunkdb EXCEPT
           !.vectors[ChunkOf(x)] = upsert_embedding(chunkdb.vectors, ChunkOf(x))[ChunkOf(x)],
           !.slide[SlideOf(x)].processed_chunks = emb[x].processed,
           !.expl[SlideOf(x)] =
               IF emb[x].processed = emb[x].total THEN Cap(@) ELSE @]
    /\ status' = IF emb[x].set THEN "explaining" ELSE status
    /\ UNCHANGED <<total_slides, chunkFrame>>

InitChunk ==
    /\ InitLecture({})
    /\ registry = {}
    /\ dec = [c \in Ingests |-> IdleIngest]
    /\ rec = [c \in Recorders |-> IdleRecorder]
    /\ call = NoCall
    /\ emb = [x \in EmbIds |-> IdleEmbed]
    /\ \E d \in [Slides -> 0..MaxChunks] :
           chunkdb = [IdleChunkDb EXCEPT !.doc = d]

NextChunk ==
    \/ \E k \in Slots : chunk_ingest_start(k) \/ chunk_ingest_page(k)
    \/ \E x \in EmbIds :
           \/ embed_upsert(x)
           \/ update_slide_progress(x)
           \/ enqueue_explanation_job_if_complete(x)
           \/ _check_and_update_lecture_status(x)
           \/ embed_commit(x)

SpecChunk == InitChunk /\ [][NextChunk]_vars

\* ------------------------------------------------ the image classifier
\* app/services/ingest/image_processing.py, _classify_image: a caption is a
\* sequence of words separated by one space; a word carries its length, its
\* lower-case form and the keywords that form contains as substrings. Of
\* the OCR text only the length is read.
content_keywords == {"diagram", "chart", "graph", "table", "screenshot",
                     "code", "equation", "map", "plot"}
decorative_keywords == {"logo", "icon", "banner", "background",
                        "illustration", "photo", "picture", "drawing",
                        "artwork", "decoration"}
Vocabulary ==
    {[text |-> "the", lower |-> "the", len |-> 3, contains |-> {}],
     [text |-> "presentation", lower |-> "presentation", len |-> 12,
      contains |-> {}],
     [text |-> "Chart", lower |-> "chart", len |-> 5, contains |-> {"chart"}],
     [text |-> "logo", lower |-> "logo", len |-> 4, contains |-> {"logo"}],
     [text |-> "Bitmap", lower |-> "bitmap", len |-> 6, contains |-> {"map"}]}
Captions == UNION {[1..n -> Vocabulary] : n \in 0..MaxWords}
OcrLengths == {0, 1, 29, 30, 31}

RECURSIVE SumLen(_)
SumLen(alt) == IF alt = << >> THEN 0 ELSE Head(alt).len + SumLen(Tail(alt))
\* len(alt_text): the words and the spaces between them
len(alt) == IF alt = << >> THEN 0 ELSE SumLen(alt) + Len(alt) - 1
\* alt_text.split()
split(alt) == alt
\* kw in lower_alt_text
in_lower(kw, alt) == \E i \in 1..Len(alt) : kw \in alt[i].contains

_classify_image_lengths_first(alt_text, ocr_text) ==
    IF ocr_text # 0 /\ ocr_text >= 30 THEN "content"
    ELSE IF alt_text # << >> /\ Len(split(alt_text)) >= 4 /\ len(alt_text) >= 30
    THEN "content"
    ELSE IF \E kw \in content_keywords : in_lower(kw, alt_text) THEN "content"
    ELSE "decorative"
_classify_image(alt_text, ocr_text) ==
    IF \E kw \in content_keywords : in_lower(kw, alt_text) THEN "content"
    ELSE IF \E kw \in decorative_keywords : in_lower(kw, alt_text)
    THEN "decorative"
    ELSE IF ocr_text # 0 /\ ocr_text >= 30 THEN "content"
    ELSE IF alt_text # << >> /\ Len(split(alt_text)) >= 4 /\ len(alt_text) >= 30
    THEN "content"
    ELSE "decorative"

classify ==
    /\ call.op = "_classify_image"
    /\ call.result = "pending"
    /\ call' = [call EXCEPT
           !.result = _classify_image(call.arg.alt_text, call.arg.ocr_text)]
    /\ UNCHANGED <<pipelineVars, registry, dec, rec, chunkdb, emb>>

InitClassify ==
    /\ InitLecture({})
    /\ registry = {}
    /\ dec = [c \in Ingests |-> IdleIngest]
    /\ rec = [c \in Recorders |-> IdleRecorder]
    /\ chunkdb = IdleChunkDb
    /\ emb = [x \in EmbIds |-> IdleEmbed]
    /\ \E a \in Captions, o \in OcrLengths :
           call = [op |-> "_classify_image",
                   arg |-> [alt_text |-> a, ocr_text |-> o],
                   result |-> "pending"]

NextClassify == classify

SpecClassify == InitClassify /\ [][NextClassify]_vars

\* ------------------------------------------------ the pipeline, scheduled
\* The bus delivers every published job and a handler that has started runs
\* to its end: a step that stays possible is eventually taken. Every job is
\* delivered once and acknowledged; the only failure is the rendering or the
\* upload of a full-slide image, which the ingestion catches.
SpecRenderFair == Init /\ [][NextRender]_vars /\ WF_vars(NextRender)

\* the same schedule when no call fails but the generation call of the
\* explanation stage
SpecOnceFair == Init /\ [][NextOnce]_vars /\ WF_vars(NextOnce)

\* ------------------------------------- the commit of an image analysis
\* slide_images as the ingestion leaves it for the lectures of NumIngests
\* documents, and update_image_analysis_results applied to it. A page has
\* sub-images and a full-slide render; both kinds of record carry the
\* perceptual hash of their picture, and the render of a page that shows one
\* picture over the whole page may hash like that picture.
OwnHash(s) == NumHashes + s
Pages ==
    {[imgs |-> i, render |-> r] : i \in SUBSET Hashes, r \in Hashes \cup {0}}
\* the pages a document can have: the render has a hash of its own (0) or
\* the hash of a picture of the page
PossiblePages == {p \in Pages : p.render = 0 \/ p.render \in p.imgs}
SlideImageIds ==
    {[lecture |-> l, slide |-> s, sub |-> b, image_hash |-> h] :
        l \in Ingests, s \in Slides, b \in BOOLEAN,
        h \in Hashes \cup {OwnHash(x) : x \in Slides}}
\* the records render_and_upload_slide_image and process_slide_sub_images
\* insert for document d: insert_slide_image with type 'full_slide_render'
\* for the render, with no type for a sub-image
inserted_slide_images(d) ==
    {r \in SlideImageIds :
        IF r.sub
        THEN r.image_hash \in d[r.lecture][r.slide].imgs
        ELSE r.image_hash = (IF d[r.lecture][r.slide].render = 0
                             THEN OwnHash(r.slide)
                             ELSE d[r.lecture][r.slide].render)}
NewRecord(r) ==
    [type |-> IF r.sub THEN "null" ELSE "full_slide_render",
     ocr_text |-> "null", alt_text |-> "null"]

\* UPDATE slide_images SET type, ocr_text, alt_text
\* WHERE lecture_id = $4 AND image_hash = $5
update_image_analysis_results(table, lecture_id, image_hash, result) ==
    [r \in DOMAIN table |->
        IF r.lecture = lecture_id /\ r.image_hash = image_hash
        THEN result ELSE table[r]]

AnalysisResults ==
    {[type |-> t, ocr_text |-> "ocr", alt_text |-> "alt"] :
        t \in {"content", "decorative"}}

\* process_image_analysis_job, step 5, for the job of (lecture, hash)
analysis_commit ==
    /\ call.op = "update_image_analysis_results"
    /\ call.result = << >>
    /\ call' = [call EXCEPT !.result =
           update_image_analysis_results(call.arg.table, call.arg.lecture_id,
                                         call.arg.image_hash, call.arg.result)]
    /\ UNCHANGED <<pipelineVars, registry, dec, rec, chunkdb, emb>>

InitAnalysis ==
    /\ InitLecture({})
    /\ registry = {}
    /\ dec = [c \in Ingests |-> IdleIngest]
    /\ rec = [c \in Recorders |-> IdleRecorder]
    /\ chunkdb = IdleChunkDb
    /\ emb = [x \in EmbIds |-> IdleEmbed]
    /\ \E d \in [Ingests -> [Slides -> PossiblePages]], l \in Ingests,
          h \in Hashes, res \in AnalysisResults :
           \* the ingestion published a job for h: h is a sub-image of l
           /\ \E s \in Slides : h \in d[l][s].imgs
           /\ call = [op |-> "update_image_analysis_results",
                      arg |-> [table |-> [r \in inserted_slide_images(d) |->
                                             NewRecord(r)],
                               lecture_id |-> l, image_hash |-> h,
                               result |-> res],
                      result |-> << >>]

NextAnalysis == analysis_commit

SpecAnalysis == InitAnalysis /\ [][NextAnalysis]_vars

\* ----------------------------------------------------------- the chunker
\* app/services/ingest/text_processing.py, chunk_text_by_tokens: the text
\* is the sequence of its tokens, token p of the text being the number p; a
\* chunk is the slice of tokens it was decoded from and its token_count.
Min(a, b) == IF a < b THEN a ELSE b
\* all_tokens[i : j], a Python slice (positions from 0, j excluded)
Slice(all_tokens, i, j) == SubSeq(all_tokens, i + 1, Min(j, Len(all_tokens)))

RECURSIVE chunk_loop_no_break(_, _, _, _, _)
\* the loop without its break
chunk_loop_no_break(all_tokens, i, chunk_size, step, acc) ==
    IF i >= Len(all_tokens) THEN acc
    ELSE LET chunk_tokens == Slice(all_tokens, i, i + chunk_size)
             next == Append(acc, [tokens |-> chunk_tokens,
                                  token_count |-> Len(chunk_tokens)])
         IN chunk_loop_no_break(all_tokens, i + step, chunk_size, step, next)

RECURSIVE chunk_loop(_, _, _, _, _)
\* for i in range(0, len(all_tokens), step): append the slice and its
\* length; break when i + chunk_size >= len(all_tokens)
chunk_loop(all_tokens, i, chunk_size, step, acc) ==
    IF i >= Len(all_tokens) THEN acc
    ELSE LET chunk_tokens == Slice(all_tokens, i, i + chunk_size)
             next == Append(acc, [tokens |-> chunk_tokens,
                                  token_count |-> Len(chunk_tokens)])
         IN IF i + chunk_size >= Len(all_tokens) THEN next
            ELSE chunk_loop(all_tokens, i + step, chunk_size, step, next)

chunk_text_by_tokens(all_tokens, chunk_size, overlap) ==
    chunk_loop(all_tokens, 0, chunk_size, chunk_size - overlap, << >>)

chunk_text ==
    /\ call.op = "chunk_text_by_tokens"
    /\ ~call.done
    /\ call' = [call EXCEPT !.done = TRUE, !.result =
           chunk_text_by_tokens(call.arg.all_tokens, call.arg.chunk_size,
                                call.arg.overlap)]
    /\ UNCHANGED <<pipelineVars, registry, dec, rec, chunkdb, emb>>

InitChunker ==
    /\ InitLecture({})
    /\ registry = {}
    /\ dec = [c \in Ingests |-> IdleIngest]
    /\ rec = [c \in Recorders |-> IdleRecorder]
    /\ chunkdb = IdleChunkDb
    /\ emb = [x \in EmbIds |-> IdleEmbed]
    /\ \E L \in 0..MaxTokens, chunk_size \in 1..MaxChunkSize :
        \E overlap \in 0..(chunk_size - 1) :
           call = [op |-> "chunk_text_by_tokens",
                   arg |-> [all_tokens |-> [p \in 1..L |-> p],
                            chunk_size |-> chunk_size, overlap |-> overlap],
                   result |-> << >>, done |-> FALSE]

NextChunker == chunk_text

SpecChunker == InitChunker /\ [][NextChunker]_vars

\* ------------------------------------------------------------ the claims
ExplanationExecs == {e \in AppExecs : e.job.stage = "explanation"}
AllExplanationsFinished ==
    \A e \in ExplanationExecs : e.k = 1 => exec[e].pc \in Finished
AllExplanationsAcked ==
    \A e \in ExplanationExecs : e.k = 1 => exec[e].pc = "acked"
\* no execution is running and every published job has been acknowledged
Quiescent ==
    /\ \A e \in ExecIds : ~Running(e)
    /\ \A j \in published : \E e \in ExecIds : e.job = j /\ exec[e].pc = "acked"

\* C1: the status write to 'complete' is performed at most once per
\* lecture, over any interleaving of embedding and summary executions.
C1_CompleteWrittenAtMostOnce == complete_writes <= 1

\* C2: a lecture whose status is 'complete' has embeddings_complete set and
\* a saved summary.
C2_CompleteNeedsBothTracks ==
    status = "complete" => (embeddings_complete /\ summary > 0)

\* C3: whichever track commits first only leaves its own mark (the embedding
\* transaction the flag, the summary transaction 'summarising'), and when
\* every job has been handled the lecture is 'complete' by one transition.
C3_BothOrderingsOneTransition ==
    /\ [][/\ (~embeddings_complete /\ embeddings_complete' /\ summary = 0)
               => status' = status
          /\ (summary = 0 /\ summary' > 0 /\ ~embeddings_complete)
               => status' = "summarising"]_vars
    /\ [](Quiescent /\ SummaryJob \in published
            => (status = "complete" /\ complete_writes = 1))

\* C4: once the embedding handler has committed the flag and the summary
\* handler the summary, the lecture ends 'complete' when every job has been
\* acknowledged, also when an execution was interrupted and retried.
C4_RendezvousNotLost ==
    (Quiescent /\ embeddings_complete /\ summary > 0) => status = "complete"

C6_TerminalAbsorbing ==
    [][(status \in Terminal) => (status' = status)]_vars

Rank(st) ==
    CASE st = "new" -> 0
      [] st = "parsing" -> 1
      [] st = "explaining" -> 2
      [] st = "summarising" -> 3
      [] st = "complete" -> 4
      [] OTHER -> 5

\* C7: the status only moves forward along parsing, explaining,
\* summarising, complete, or to 'failed' from a non-terminal status.
C7_StatusMonotonic ==
    [][\/ status' = status
       \/ status' = "failed" /\ status \notin Terminal
       \/ status' # "failed" /\ status # "failed"
            /\ Rank(status) < Rank(status')]_vars

\* C8: when the N explanation jobs are each handled once, in any
\* interleaving, exactly one execution meets the threshold and publishes the
\* summary job.
C8_SingleFanIn ==
    /\ summary_pubs
         + Cardinality({e \in ExplanationExecs : exec[e].pc = "publish"}) <= 1
    /\ AllExplanationsAcked => summary_pubs = 1

C8_Witness ==
    AllExplanationsAcked /\ processed_slides = NumSlides /\ summary_pubs = 1

CallersOf(kind) == {c \in Callers : inc[c].kind = kind}
Returned(kind) ==
    {c \in CallersOf(kind) : inc[c].pc \in {"commit", "done"}}
Stored(kind) ==
    IF kind = "slides" THEN processed_slides ELSE processed_sub_images
Total(kind) == IF kind = "slides" THEN total_slides ELSE total_sub_images
AllCallersDone == \A c \in Callers : inc[c].pc = "done"

\* C9: k concurrent increments of a counter that stands at p return the
\* pairwise distinct values p+1..p+k, each with the total, and leave p+k.
C9_IncrementLinearizable ==
    \A kind \in {"slides", "images"} :
        /\ \A c, d \in Returned(kind) :
              c # d => inc[c].processed # inc[d].processed
        /\ \A c \in Returned(kind) : inc[c].total = Total(kind)
        /\ \A c \in Returned(kind) :
              inc[c].processed \in (inc[c].start + 1)
                                     ..(inc[c].start + Cardinality(CallersOf(kind)))
        /\ AllCallersDone =>
              \A c \in CallersOf(kind) :
                 Stored(kind) = inc[c].start + Cardinality(CallersOf(kind))

C9_Witness ==
    /\ AllCallersDone
    /\ Cardinality(CallersOf("slides")) >= 2
    /\ Cardinality(CallersOf("images")) >= 1

Saved == {s \in Slides : explanations[s] # "none"}
IngestExecs == {e \in AppExecs : e.job.stage = "ingestion"}
ImageExecs == {e \in AppExecs : e.job.stage = "image_analysis"}

\* C11: when every job has been acknowledged and the lecture is still
\* active, a counter that has reached its threshold has had its next-stage
\* job published, also when the first publish call raised and the job was
\* delivered again.
C11_PublishFailureRedelivered ==
    (Quiescent /\ status \notin Terminal) =>
        /\ (total_slides > 0 /\ processed_slides >= total_slides)
              => SummaryJob \in published
        /\ (total_sub_images > 0 /\ processed_sub_images >= total_sub_images)
              => EmbeddingJob \in published

\* the jobs the publishing step of an execution is to hand to the bus
NextStage(e) ==
    CASE e.job.stage = "explanation" -> {SummaryJob}
      [] e.job.stage = "image_analysis" -> {EmbeddingJob}
      [] e.job.stage = "ingestion" -> {ExplanationJob(s) : s \in slides}
      [] OTHER -> {}

\* C12: a handler that leaves its publishing step with success has handed
\* the next-stage job to the bus.
C12_PublishFailureSurfaces ==
    [][\A e \in AppExecs :
         (exec[e].pc = "publish" /\ exec'[e].pc = "acked")
            => NextStage(e) \subseteq published']_vars

\* C13: processed_sub_images equals the number of distinct analysed assets,
\* however often the job of an asset is delivered.
C13_ImageAnalysisRerunnable == processed_sub_images = Cardinality(analysed)

\* C14: when the deliveries of the explanation jobs, duplicates included,
\* have ended, processed_slides counts each explained slide once and at most
\* one summary job has been published.
C14_OverlappingExplanations ==
    (\A e \in ExplanationExecs : ~Running(e)) =>
        /\ processed_slides = Cardinality(Saved)
        /\ summary_pubs <= 1

\* C15: an explanation execution that finds its slide's explanation saved
\* and the lecture active passes its guards and returns success, and none of
\* its steps changes the store or publishes.
C15_SavedExplanationIsNoOp ==
    [][\A e \in ExplanationExecs :
         (/\ exec[e].pc \in {"verify", "exists"}
          /\ exec'[e] # exec[e]
          /\ explanations[e.job.item] # "none"
          /\ status \notin Terminal)
            => /\ exec'[e].pc \in {"exists", "acked"}
               /\ exec[e].pc = "exists" => exec'[e].pc = "acked"
               /\ UNCHANGED <<lectureVars, tableVars, busVars, gen_failed>>]_vars

\* C15 witness: both deliveries of the job of slide 1 were acknowledged and
\* the slide was counted once, nothing else of the explanation stage ran.
C15_Witness ==
    /\ exec[Exec(ExplanationJob(1), 1, "app")].pc = "acked"
    /\ exec[Exec(ExplanationJob(1), 2, "app")].pc = "acked"
    /\ explanations[1] = "real"
    /\ processed_slides = 1
    /\ status \notin Terminal

\* C16: when every job has been acknowledged, also after interrupted
\* executions, every saved explanation has been counted.
C16_ResultAndCounterTogether ==
    Quiescent => processed_slides = Cardinality(Saved)

\* C17: the embedding job is on the bus only when every unique sub-image of
\* the document has been analysed.
C17_EmbeddingAfterLastImage ==
    EmbeddingJob \in published => document \subseteq analysed

\* C18: when the ingestion job has been handled twice, no slide_images row
\* exists twice.
C18_IngestTwiceNoDuplicates ==
    (\A e \in IngestExecs : exec[e].pc = "acked") =>
        \A r \in RowKeys : image_rows[r] <= 1

RowsOf(h) == {r \in RowKeys : r[2] = h /\ image_rows[r] > 0}

RECURSIVE SumOver(_, _)
SumOver(f, S) ==
    IF S = {} THEN 0
    ELSE LET x == CHOOSE y \in S : TRUE IN f[x] + SumOver(f, S \ {x})

\* C20: after an ingestion pass that ended with success, total_sub_images
\* is the number of image-analysis jobs published, also when a sub-image
\* failed and was skipped.
C20_TotalMatchesJobs ==
    exec[Exec(IngestJob, 1, "app")].pc = "acked" =>
        total_sub_images = SumOver(image_pubs, Hashes)

AllIngestsDone == \A c \in Ingests : dec[c].pc = "done"

\* C21: for decorative assets, whatever the interleaving of the concurrent
\* ingestions that meet the same image hash, the global registry ends with
\* exactly one row for that hash and all the ingestions record the same
\* storage location for their instances of the image.
C21_DecorativeConverges ==
    AllIngestsDone =>
        \A h \in Hashes :
            /\ (\E c \in Ingests : \E r \in dec[c].rows : r.hash = h) =>
                   Cardinality({r \in registry : r.hash = h}) = 1
            /\ \A c, d \in Ingests :
                   \A r \in dec[c].rows, q \in dec[d].rows :
                       (r.hash = h /\ q.hash = h) => r.path = q.path

\* all the ingestions met one hash and have finished
C21_Witness ==
    /\ AllIngestsDone
    /\ \E h \in Hashes :
           \A c \in Ingests : \E r \in dec[c].rows : r.hash = h

\* C22: after a successful ingestion of an N-page document an explanation
\* job has been published for every one of the N slides, also when the
\* rendering or the upload of a slide's full image failed.
C22_EverySlideHasJob ==
    (exec[Exec(IngestJob, 1, "app")].pc = "acked"
       /\ raised[Exec(IngestJob, 1, "app")] = "none") =>
        \A s \in Slides : ExplanationJob(s) \in published

\* the explanation error column holds an entry for slide s
HasExplanationError(s) ==
    \E i \in 1..Len(explanation_error_details) :
        explanation_error_details[i].item = s

\* C23: when an explanation job fails for good because the user's key is
\* missing or cannot be read, the job is acknowledged, an error entry is
\* recorded on the lecture and the lecture is marked 'failed'.
C23_MissingKeyMarksFailed ==
    \A e \in ExplanationExecs :
        raised[e] = "invalid_key" =>
            /\ exec[e].pc = "acked"
            /\ HasExplanationError(e.job.item)
            /\ status = "failed"

\* C24: when the embedding or the ingestion handler fails with a transient
\* error the job is not acknowledged, and the redelivered job runs the whole
\* handler again: once the second execution has returned, the embeddings
\* are stored and embeddings_complete is set (respectively the ingestion is
\* completed: every slide has its explanation job).
C24_RedeliveryRunsAgain ==
    /\ \A j \in {EmbeddingJob, IngestJob} :
           raised[Exec(j, 1, "app")] = "exception" =>
               exec[Exec(j, 1, "app")].pc \in {"error", "nacked"}
    /\ (raised[Exec(EmbeddingJob, 1, "app")] = "exception"
          /\ exec[Exec(EmbeddingJob, 2, "app")].pc = "acked") =>
           (embeddings_complete /\ \A c \in chunks : embeddings[c] > 0)
    /\ (raised[Exec(IngestJob, 1, "app")] = "exception"
          /\ exec[Exec(IngestJob, 2, "app")].pc = "acked") =>
           \A s \in Slides : ExplanationJob(s) \in published

\* C25: the endpoint of every stage answers with the success status exactly
\* when the handler returned normally or raised InvalidAPIKeyError, and with
\* a non-success status for every other failure.
C25_SuccessIffReturnedOrCredential ==
    \A e \in AppExecs :
        exec[e].pc \in Finished =>
            (exec[e].pc = "acked" <=> raised[e] \in {"none", "invalid_key"})

\* C26: every execution of a stage handler that ends with an exception has,
\* before it ends, recorded an error entry for its stage on the lecture.
C26_ExceptionIsRecorded ==
    \A e \in AppExecs :
        (exec[e].pc \in Finished /\ raised[e] \in {"exception", "invalid_key"})
            => e \in recorded

\* the error entries the lecture holds, over both error columns
Entries ==
    {search_error_details[i] : i \in 1..Len(search_error_details)}
      \cup {explanation_error_details[i] :
               i \in 1..Len(explanation_error_details)}

\* C27: recording an error for one stage never removes or replaces the
\* entries recorded earlier by another stage: in every step an entry stays,
\* unless the step stored a new entry of the same stage.
C27_OtherStagesKept ==
    [][\A x \in Entries :
           \/ x \in Entries'
           \/ \E y \in Entries' \ Entries : y.service = x.service]_vars

AllRecordersDone == \A c \in Recorders : rec[c].pc = "done"

\* the entries of the explanation error list that connection pid wrote
EntriesOf(pid) ==
    {i \in 1..Len(explanation_error_details) :
         explanation_error_details[i].pid = pid}

\* C28: the error entries of the explanation stage are only appended: when
\* the explanation handlers of a lecture record errors concurrently, every
\* entry is present afterwards and no entry recorded before is lost.
C28_ConcurrentRecordsKept ==
    AllRecordersDone =>
        \A c \in Recorders :
            /\ Cardinality(EntriesOf(c)) = rec[c].calls
            /\ Cardinality(EntriesOf(0)) = Len(rec[c].start)

\* C29: every status write of a stage handler is conditional on the expected
\* current status: the status becomes 'summarising' only from 'explaining'
\* and 'complete' only from 'summarising'.
C29_StatusWritesConditional ==
    [][/\ (status' = "summarising" /\ status # "summarising")
            => (status = "explaining")
       /\ (status' = "complete" /\ status # "complete")
            => (status = "summarising")]_vars

\* C30: an explanation or a summary, once saved, is never overwritten: no
\* later execution of the explanation handler of the slide or of the summary
\* handler of the lecture writes the stored row again.
C30_SavedNeverOverwritten ==
    [][/\ \A s \in Slides :
             (explanations[s] # "none") => (explanations'[s] = explanations[s])
       /\ (summary > 0) => (summary' = summary)]_vars

EmbeddingExecs == {e \in AppExecs : e.job.stage = "embedding"}

\* C31: after any number of executions of the embedding handler (redelivered
\* or concurrent) there is at most one embedding row per chunk, and once an
\* execution has committed there is exactly one for every chunk.
C31_OneEmbeddingPerChunk ==
    /\ \A c \in Slides : embeddings[c] <= 1
    /\ embeddings_complete => \A c \in chunks : embeddings[c] = 1

\* the embedding handler has committed twice: both executions returned and
\* neither was stopped by the guard, the status never having been terminal
C31_Witness ==
    /\ \A e \in EmbeddingExecs : exec[e].pc = "acked" /\ raised[e] = "none"
    /\ \E e \in EmbeddingExecs : e.k = 2
    /\ processed_slides < total_slides
    /\ \A c \in Slides : embeddings[c] = 1

\* C32: in the per-chunk pipeline a step changes the processed_chunks of a
\* slide only when it is the commit of an embed execution on that slide, and
\* then by exactly one; a page of the ingestion, the first run or a replay
\* over the existing slides, leaves processed_chunks as it is, and
\* total_chunks is written by the ingestion only.
C32_ProcessedChunksOnlyByEmbed ==
    [][\A s \in Slides :
          /\ (chunkdb'.slide[s].processed_chunks # chunkdb.slide[s].processed_chunks)
             => (\E x \in EmbIds :
                    /\ SlideOf(x) = s
                    /\ emb[x].pc = "commit" /\ emb'[x].pc = "done"
                    /\ chunkdb'.slide[s].processed_chunks
                       = chunkdb.slide[s].processed_chunks + 1)
          /\ (chunkdb'.slide[s].total_chunks # chunkdb.slide[s].total_chunks)
             => (\E k \in Slots : chunkdb.ing[k] = s /\ chunkdb'.ing[k] = s + 1)
      ]_vars

\* the replay of the ingestion has gone over a slide that had counted chunks,
\* and the count is still there
C32_Witness ==
    /\ chunkdb.ing[2] > 1
    /\ chunkdb.slide[1].processed_chunks > 0
    /\ \E x \in EmbIds : SlideOf(x) = 1 /\ emb[x].pc = "done"

\* C33: the classification of an image is the documented decision table of
\* its caption and OCR text: a content keyword in the caption gives
\* "content"; without one, a decorative keyword gives "decorative"; without
\* any keyword an OCR text of at least 30 characters gives "content", and so
\* does a caption of at least 4 words and at least 30 characters; every
\* other image is "decorative".
C33_HasKeyword(K) ==
    \E i \in 1..Len(call.arg.alt_text) :
        \E kw \in K : kw \in call.arg.alt_text[i].contains
C33_LongEnough ==
    \/ call.arg.ocr_text >= 30
    \/ Len(call.arg.alt_text) >= 4 /\ len(call.arg.alt_text) >= 30
C33_ClassifyIsDecisionTable ==
    (call.op = "_classify_image" /\ call.result # "pending") =>
        call.result =
            CASE C33_HasKeyword(content_keywords) -> "content"
              [] ~C33_HasKeyword(content_keywords)
                 /\ C33_HasKeyword(decorative_keywords) -> "decorative"
              [] ~C33_HasKeyword(content_keywords \cup decorative_keywords)
                 /\ C33_LongEnough -> "content"
              [] OTHER -> "decorative"

\* a caption with a decorative keyword, long enough for "content" by both
\* thresholds, has been classified
C33_Witness ==
    /\ call.op = "_classify_image"
    /\ call.result = "decorative"
    /\ C33_HasKeyword(decorative_keywords)
    /\ call.arg.ocr_text >= 30
    /\ Len(call.arg.alt_text) >= 4 /\ len(call.arg.alt_text) >= 30

\* C34: in the per-chunk pipeline, when the ingestion has stored every slide
\* and every slide has chunks and has processed_chunks equal to total_chunks,
\* the status of the lecture is "explaining", whatever the interleaving of
\* the embed transactions.
C34_AllEmbeddedIsExplaining ==
    (/\ chunkdb.ing[1] = NumSlides + 1
     /\ \A s \in Slides :
           /\ chunkdb.slide[s].total_chunks > 0
           /\ chunkdb.slide[s].processed_chunks = chunkdb.slide[s].total_chunks)
    => status = "explaining"

\* C35: a lecture whose ingestion handler has started eventually has a
\* terminal status, "complete" or "failed", when every published job is
\* delivered and every call returns or fails.
IngestionStarted ==
    \E e \in AppExecs : e.job.stage = "ingestion" /\ exec[e].pc # "idle"
C35_EventuallyTerminal == IngestionStarted ~> (status \in Terminal)

\* C36: the step of the ingestion that publishes the first explanation,
\* image-analysis or embedding job starts from a lecture that has its
\* total_slides, its total_sub_images and the status "explaining" written;
\* and whenever such a job is published, hence whenever a downstream handler
\* runs, both totals are set.
DownstreamJobs == {j \in Jobs : j.stage \in {"explanation", "image_analysis", "embedding"}}
C36_TotalsSet ==
    /\ total_slides = NumSlides
    /\ total_sub_images = Cardinality(processed_images_map(1))
C36_TotalsBeforeFirstJob ==
    /\ [][(published \cap DownstreamJobs = {} /\ published' \cap DownstreamJobs # {})
          => (C36_TotalsSet /\ status = "explaining")]_vars
    /\ []((published \cap DownstreamJobs # {}) => C36_TotalsSet)

\* a downstream handler compares a counter with the totals of a lecture that
\* has sub-images
C36_Witness ==
    /\ total_sub_images > 0
    /\ \E e \in AppExecs : e.job.stage = "image_analysis" /\ exec[e].pc = "acked"
    /\ \E e \in AppExecs : e.job.stage = "explanation" /\ exec[e].pc = "acked"

\* C37: under at-least-once delivery every progress counter stays within its
\* total: processed_slides <= total_slides and processed_sub_images <=
\* total_sub_images on the lecture, processed_chunks <= total_chunks on
\* every slide of the per-chunk pipeline.
C37_CountersWithinTotals ==
    /\ processed_slides <= total_slides
    /\ processed_sub_images <= total_sub_images
    /\ \A s \in Slides :
           chunkdb.slide[s].processed_chunks <= chunkdb.slide[s].total_chunks

\* C38: embeddings_complete is TRUE only when every chunk of the lecture has
\* an embedding record; and the steps of an embedding execution whose
\* generation call failed or returned a number of vectors other than the
\* number of chunks write no embedding and leave the flag as it was.
C38_CommitIsAtomic ==
    /\ [](embeddings_complete => \A c \in chunks : embeddings[c] > 0)
    /\ [][\A e \in EmbeddingExecs :
             (exec'[e] # exec[e] /\ "error" \in {exec[e].pc, exec'[e].pc})
             => (embeddings' = embeddings
                 /\ embeddings_complete' = embeddings_complete)]_vars

\* one delivery of the embedding job has committed and another has raised
C38_Witness ==
    /\ embeddings_complete
    /\ chunks # {}
    /\ \E e \in EmbeddingExecs : exec[e].pc = "acked" /\ raised[e] = "none"
    /\ \E e \in EmbeddingExecs : exec[e].pc = "nacked" /\ raised[e] = "exception"

\* C39: after the commit of the analysis of (lecture L, hash h) every
\* sub-image record of L with hash h carries the type and the texts of the
\* result, and every other record -- of another lecture, with another hash,
\* or a full-slide render -- is as it was before.
C39_CommitWritesSubImagesOnly ==
    (call.op = "update_image_analysis_results" /\ call.result # << >>) =>
        \A r \in DOMAIN call.arg.table :
            call.result[r] =
                IF /\ r.sub
                   /\ r.lecture = call.arg.lecture_id
                   /\ r.image_hash = call.arg.image_hash
                THEN call.arg.result
                ELSE call.arg.table[r]

\* C40: for a text of L tokens and chunk_size > overlap >= 0 the chunker
\* returns no chunk when L = 0 and otherwise chunks that cover the tokens in
\* order: chunk k (from 0) starts at token k * (chunk_size - overlap), is a
\* run of at most chunk_size consecutive tokens whose token_count is its
\* length, consecutive chunks have exactly overlap tokens in common, and the
\* last chunk ends with the last token.
C40_Range(chunk) == {chunk.tokens[j] : j \in 1..Len(chunk.tokens)}
C40_ChunksCoverTokens ==
    (call.op = "chunk_text_by_tokens" /\ call.done) =>
        LET L == Len(call.arg.all_tokens)
            R == call.result
            step == call.arg.chunk_size - call.arg.overlap
        IN /\ (L = 0) <=> (R = << >>)
           /\ \A k \in 1..Len(R) :
                 /\ R[k].token_count >= 1
                 /\ R[k].token_count <= call.arg.chunk_size
                 /\ R[k].token_count = Len(R[k].tokens)
                 /\ \A j \in 1..Len(R[k].tokens) :
                        R[k].tokens[j] = (k - 1) * step + j
           /\ \A k \in 1..(Len(R) - 1) :
                 Cardinality(C40_Range(R[k]) \cap C40_Range(R[k + 1]))
                     = call.arg.overlap
           /\ L > 0 => R[Len(R)].tokens[Len(R[Len(R)].tokens)] = L
           /\ UNION {C40_Range(R[k]) : k \in 1..Len(R)} = 1..L

\* a text that needs more than two chunks, the last one shorter than
\* chunk_size, with an overlap
C40_Witness ==
    /\ call.op = "chunk_text_by_tokens"
    /\ call.done
    /\ call.arg.overlap > 0
    /\ Len(call.result) > 2
    /\ call.result[Len(call.result)].token_count < call.arg.chunk_size

====
